---- MODULE Spec2Model ----
(***************************************************************************)
(* A2A dispatch core of inngest-hitl: executor registry and execute,       *)
(* the task lifecycle context, and the two storage adapters (in-memory     *)
(* and Drizzle/SQL), with an injected event recorder as event channel.     *)
(***************************************************************************)
EXTENDS Integers, Sequences, FiniteSets, TLC

(***************************************************************************)
(* Bounds                                                                  *)
(***************************************************************************)
MaxCalls == 2
MaxAdapterCalls == 3
MaxClock == 1
MaxObservers == 2
MaxRuns == 1
MaxIterations == 1
MaxUserMessages == 3

(***************************************************************************)
(* Value universes                                                         *)
(***************************************************************************)
TaskIds == {"t1", "t2"}
ContextIds == {"c1"}
ArtifactIds == {"a0", "a1"}
PartsValues == {"p1", "p2"}
Backends == {"none", "memory", "drizzle"}

\* src/unnamed/part_013 TaskStateSchema: the nine task states
TaskStateSchema ==
  {"submitted", "working", "input-required", "completed", "canceled",
   "failed", "rejected", "auth-required", "unknown"}

STATUS_UPDATE == "status-update"
ARTIFACT_UPDATE == "artifact-update"

(***************************************************************************)
(* Messages.  parts is the ordered list of parts; a part is a text part    *)
(* or a data part whose data object has the given keys.  metadata tells    *)
(* whether the message carries a metadata object.                          *)
(***************************************************************************)
TextPart == [kind |-> "text", keys |-> {"text"}]
DataPart == [kind |-> "data", keys |-> {"x"}]

Message(id, exts, parts, meta) ==
  [messageId |-> id, extensions |-> exts, parts |-> parts,
   taskId |-> "", contextId |-> "", metadata |-> meta]

\* "no message" (status.message undefined)
NoMsg == Message("", <<>>, <<>>, FALSE)

\* inbound user messages
InboundMessages ==
  { Message("m1", <<"A">>, <<TextPart>>, TRUE),
    Message("m2", <<"B", "A">>, <<DataPart>>, FALSE),
    Message("m3", <<"U">>, <<TextPart>>, TRUE) }

\* agent messages used as status narration
AgentMsg == Message("g1", <<>>, <<TextPart>>, TRUE)
AgentMsg2 == Message("g2", <<>>, <<TextPart>>, FALSE)

StatusMessages == {NoMsg, AgentMsg}

\* status payloads of direct updateStatus calls: each of the nine states
\* without a message, and two of them with a narration message
StatusInputs ==
  { [state |-> s, message |-> NoMsg] : s \in TaskStateSchema }
    \cup { [state |-> s, message |-> AgentMsg] : s \in {"working", "failed"} }
AdapterMessages == {AgentMsg, AgentMsg2}

(***************************************************************************)
(* Executors: extension URI, optional input schema (set of required keys)  *)
(* and the body, a fixed sequence of lifecycle calls on its own task.      *)
(***************************************************************************)
Step(op, state, msg, aid, parts) ==
  [op |-> op, state |-> state, msg |-> msg, artifactId |-> aid, parts |-> parts]

\* "start" executor: stores a plan artifact, asks for input and returns
StartExecutor ==
  [extension |-> "A", hasInput |-> TRUE, input |-> {"text"},
   body |-> << Step("updateArtifact", "", NoMsg, "a0", "p1"),
               Step("updateStatus", "input-required", AgentMsg, "", "") >>]

\* "resume" executor: reads the task, then working / artifact a1 / completed
ResumeExecutor ==
  [extension |-> "B", hasInput |-> FALSE, input |-> {},
   body |-> << Step("getTask", "", NoMsg, "", ""),
               Step("updateStatus", "working", NoMsg, "", ""),
               Step("updateArtifact", "", NoMsg, "a1", "p1"),
               Step("updateStatus", "completed", NoMsg, "", "") >>]

ExecutorDefs == {StartExecutor, ResumeExecutor}
NoExecutor == [extension |-> "", hasInput |-> FALSE, input |-> {}, body |-> <<>>]

VARIABLES
  backend,    \* which StorageAdapter the instance was configured with
  fk,         \* whether the database enforces the declared foreign keys
  executors,  \* Map<string, Executor> in insertion order
  store,      \* state of the storage adapters
  clock,      \* database clock (unixepoch) for created_at defaults
  events,     \* events handed to config.events.send, in order
  call,       \* the execute call in flight (executor body not finished)
  saves,      \* DrizzleStorageAdapter.saveMessage calls in flight
  last,       \* outcome of the operation that completed last
  attached,   \* per task: messages attached by resolved core operations
  saveLog,    \* per task: messages of resolved saveMessage calls
  overlap,    \* per task: two saveMessage calls have been in flight at once
  ops,        \* number of calls made so far, per kind
  sse,        \* event channel: sink registry, subscriptions, observers
  rpc,        \* JSON-RPC endpoint: request awaiting execute, last response
  wf,         \* Inngest runs of the research workflows
  boot        \* module state of the shared instance (executors/a2a.ts)

vars == <<backend, fk, executors, store, clock, events, call, saves, last,
          attached, saveLog, overlap, ops, sse, rpc, wf, boot>>

(***************************************************************************)
(* Generic helpers                                                         *)
(***************************************************************************)
Range(s) == { s[i] : i \in 1..Len(s) }

Max(S) == CHOOSE x \in S : \A y \in S : y <= x

\* all orderings of the set S as sequences
Perms(S) ==
  { p \in [1..Cardinality(S) -> S] : \A i, j \in 1..Cardinality(S) : i # j => p[i] # p[j] }

Result(ok, st, err) == [ok |-> ok, st |-> st, err |-> err]

(***************************************************************************)
(* Tasks as the adapters hand them out (Task2)                             *)
(***************************************************************************)
Task(id, ctx, state, smsg, artifacts, history) ==
  [exists |-> TRUE, id |-> id, contextId |-> ctx, state |-> state,
   smsg |-> smsg, artifacts |-> artifacts, history |-> history]

\* "no task" (null)
NoTask == [exists |-> FALSE, id |-> "", contextId |-> "", state |-> "",
           smsg |-> NoMsg, artifacts |-> <<>>, history |-> <<>>]

Artifact(aid, parts) == [artifactId |-> aid, parts |-> parts]

(***************************************************************************)
(* MemoryStorageAdapter: store = {tasks, messages, artifacts}.             *)
(* artifacts is a Map keyed by artifactId, kept in insertion order.        *)
(***************************************************************************)
MemInit ==
  [tasks |-> [t \in TaskIds |-> NoTask],
   messages |-> [t \in TaskIds |-> <<>>],
   artifacts |-> <<>>]

\* Map.set(key, value) on a Map held as a sequence of entries
MapSet(m, key, val) ==
  IF \E i \in 1..Len(m) : m[i].artifactId = key
  THEN [i \in 1..Len(m) |-> IF m[i].artifactId = key THEN val ELSE m[i]]
  ELSE Append(m, val)

MemSaveTask(m, task) == [m EXCEPT !.tasks[task.id] = task]

MemGetTask(m, t) == m.tasks[t]

MemSaveMessage(m, t, msg) == [m EXCEPT !.messages[t] = Append(@, msg)]

MemUpdateTaskStatus(m, t, state, msg) ==
  IF ~m.tasks[t].exists
  THEN Result(FALSE, m, "Task not found")
  ELSE LET m1 == [m EXCEPT !.tasks[t].state = state, !.tasks[t].smsg = msg]
       IN IF msg # NoMsg
          THEN Result(TRUE,
                      MemSaveMessage([m1 EXCEPT !.tasks[t].history = Append(@, msg)], t, msg),
                      "")
          ELSE Result(TRUE, m1, "")

MemGetMessages(m, t) == m.messages[t]

MemUpdateArtifact(m, t, art) ==
  LET m1 == [m EXCEPT !.artifacts =
                MapSet(@, art.artifactId,
                       [artifactId |-> art.artifactId, taskId |-> t, parts |-> art.parts])]
  IN IF m1.tasks[t].exists
     THEN [m1 EXCEPT !.tasks[t].artifacts = Append(@, art)]
     ELSE m1

MemGetTaskArtifacts(m, t) ==
  LET F[i \in 0..Len(m.artifacts)] ==
        IF i = 0 THEN <<>>
        ELSE IF m.artifacts[i].taskId = t
             THEN Append(F[i-1], Artifact(m.artifacts[i].artifactId, m.artifacts[i].parts))
             ELSE F[i-1]
  IN F[Len(m.artifacts)]

(***************************************************************************)
(* DrizzleStorageAdapter over the four tables of the migration:            *)
(* a2a_tasks (PK id), a2a_messages (PK id, FK task), a2a_artifacts (PK id, *)
(* FK task), a2a_task_messages (PK (task, message), FK task, FK message).  *)
(* nextId stands for crypto.randomUUID(): every call yields a fresh id.    *)
(***************************************************************************)
NoRow == [exists |-> FALSE, id |-> "", statusState |-> "", statusMessage |-> NoMsg,
          contextId |-> ""]

DbInit ==
  [tasks |-> [t \in TaskIds |-> NoRow],
   messages |-> {},
   taskMessages |-> {},
   artifacts |-> {},
   nextId |-> 1]

taskToDb(task) ==
  [exists |-> TRUE, id |-> task.id, statusState |-> task.state,
   statusMessage |-> task.smsg, contextId |-> task.contextId]

\* the row carries neither artifacts nor history
dbToTask(row) ==
  Task(row.id, row.contextId, row.statusState, row.statusMessage, <<>>, <<>>)

\* metadata: message.metadata ? JSON.stringify(message.metadata) : ""
messageToDb(msg, t, id, now) ==
  [id |-> id, taskId |-> t, messageId |-> msg.messageId, parts |-> msg.parts,
   contextId |-> msg.contextId, extensions |-> msg.extensions,
   metadata |-> IF msg.metadata THEN "json" ELSE "", createdAt |-> now]

\* metadata: parsed.metadata ? JSON.parse(parsed.metadata) : {}; taskId is not restored
dbToMessage(row) ==
  [messageId |-> row.messageId, extensions |-> row.extensions, parts |-> row.parts,
   taskId |-> "", contextId |-> row.contextId, metadata |-> TRUE]

artifactToDb(art, t, id) ==
  [id |-> id, taskId |-> t, artifactId |-> art.artifactId, parts |-> art.parts]

dbToArtifact(row) == Artifact(row.artifactId, row.parts)

\* a row that references a task is rejected when the task row is missing
ForeignKeyOk(d, t, enforced) == ~enforced \/ d.tasks[t].exists

DbSaveTask(d, task) == [d EXCEPT !.tasks[task.id] = taskToDb(task)]

DbGetTask(d, t) == IF d.tasks[t].exists THEN dbToTask(d.tasks[t]) ELSE NoTask

\* UPDATE ... WHERE id = taskId: no row matched is not an error
DbUpdateTaskStatus(d, t, state, msg) ==
  IF d.tasks[t].exists
  THEN Result(TRUE, [d EXCEPT !.tasks[t].statusState = state,
                              !.tasks[t].statusMessage = msg], "")
  ELSE Result(TRUE, d, "")

\* the three statements of saveMessage
DbInsertMessage(d, t, msg, now, enforced) ==
  IF ForeignKeyOk(d, t, enforced)
  THEN Result(TRUE, [d EXCEPT !.nextId = @ + 1,
                              !.messages = @ \cup {messageToDb(msg, t, d.nextId, now)}], "")
  ELSE Result(FALSE, d, "FOREIGN KEY constraint failed")

DbNextSequence(d, t) ==
  LET seqs == { r.sequence : r \in { x \in d.taskMessages : x.taskId = t } }
  IN (IF seqs = {} THEN 0 ELSE Max(seqs)) + 1

\* onConflictDoNothing on the primary key (taskId, messageId)
DbInsertTaskMessage(d, t, rowId, sequence, now) ==
  IF \E r \in d.taskMessages : r.taskId = t /\ r.messageId = rowId
  THEN d
  ELSE [d EXCEPT !.taskMessages =
          @ \cup {[taskId |-> t, messageId |-> rowId, sequence |-> sequence, createdAt |-> now]}]

DbSaveMessage(d, t, msg, now, enforced) ==
  LET r1 == DbInsertMessage(d, t, msg, now, enforced)
  IN IF ~r1.ok THEN r1
     ELSE Result(TRUE, DbInsertTaskMessage(r1.st, t, d.nextId, DbNextSequence(r1.st, t), now), "")

\* messages INNER JOIN task_messages WHERE taskId ORDER BY sequence ASC
DbJoin(d, t) ==
  { [message |-> m, sequence |-> r.sequence, createdAt |-> r.createdAt] :
      <<m, r>> \in { x \in d.messages \X d.taskMessages :
                       x[2].taskId = t /\ x[1].id = x[2].messageId } }

\* variant: ORDER BY created_at instead of sequence
DbGetMessagesByCreatedAt(d, t) ==
  { [i \in 1..Len(p) |-> dbToMessage(p[i].message)] :
      p \in { q \in Perms(DbJoin(d, t)) :
                \A i, j \in 1..Len(q) : i < j => q[i].createdAt <= q[j].createdAt } }

\* every order the database may return: rows with equal keys in any order
DbGetMessages(d, t) ==
  { [i \in 1..Len(p) |-> dbToMessage(p[i].message)] :
      p \in { q \in Perms(DbJoin(d, t)) :
                \A i, j \in 1..Len(q) : i < j => q[i].sequence <= q[j].sequence } }

DbUpdateArtifact(d, t, art, enforced) ==
  IF ForeignKeyOk(d, t, enforced)
  THEN Result(TRUE, [d EXCEPT !.nextId = @ + 1,
                              !.artifacts = @ \cup {artifactToDb(art, t, d.nextId)}], "")
  ELSE Result(FALSE, d, "FOREIGN KEY constraint failed")

\* SELECT ... WHERE taskId (rows listed in insertion order)
DbGetTaskArtifacts(d, t) ==
  LET F[i \in 0..d.nextId] ==
        IF i = 0 THEN <<>>
        ELSE IF \E r \in d.artifacts : r.id = i /\ r.taskId = t
             THEN Append(F[i-1], dbToArtifact(CHOOSE r \in d.artifacts : r.id = i))
             ELSE F[i-1]
  IN F[d.nextId]

(***************************************************************************)
(* StorageAdapter interface as the core sees it (storage?.method(...)):    *)
(* without a configured adapter every call is skipped.                     *)
(***************************************************************************)
StoreInit == [mem |-> MemInit, db |-> DbInit]

\* variant: an existing task row is kept (insert, on conflict do nothing)
SaveTaskIfAbsent(st, task) ==
  CASE backend = "memory" ->
         IF st.mem.tasks[task.id].exists THEN st
         ELSE [st EXCEPT !.mem = MemSaveTask(@, task)]
    [] backend = "drizzle" ->
         IF st.db.tasks[task.id].exists THEN st
         ELSE [st EXCEPT !.db = DbSaveTask(@, task)]
    [] OTHER -> st

SaveTask(st, task) ==
  CASE backend = "memory" -> [st EXCEPT !.mem = MemSaveTask(@, task)]
    [] backend = "drizzle" -> [st EXCEPT !.db = DbSaveTask(@, task)]
    [] OTHER -> st

GetTask(st, t) ==
  CASE backend = "memory" -> MemGetTask(st.mem, t)
    [] backend = "drizzle" -> DbGetTask(st.db, t)
    [] OTHER -> NoTask

UpdateTaskStatus(st, t, state, msg) ==
  CASE backend = "memory" ->
         LET r == MemUpdateTaskStatus(st.mem, t, state, msg)
         IN Result(r.ok, [st EXCEPT !.mem = r.st], r.err)
    [] backend = "drizzle" ->
         LET r == DbUpdateTaskStatus(st.db, t, state, msg)
         IN Result(r.ok, [st EXCEPT !.db = r.st], r.err)
    [] OTHER -> Result(TRUE, st, "")

SaveMessage(st, t, msg) ==
  CASE backend = "memory" -> Result(TRUE, [st EXCEPT !.mem = MemSaveMessage(@, t, msg)], "")
    [] backend = "drizzle" ->
         LET r == DbSaveMessage(st.db, t, msg, clock, fk)
         IN Result(r.ok, [st EXCEPT !.db = r.st], r.err)
    [] OTHER -> Result(TRUE, st, "")

\* the set of results a getMessages call may return
GetMessages(st, t) ==
  CASE backend = "memory" -> {MemGetMessages(st.mem, t)}
    [] backend = "drizzle" -> DbGetMessages(st.db, t)
    [] OTHER -> {<<>>}

UpdateArtifact(st, t, art) ==
  CASE backend = "memory" -> Result(TRUE, [st EXCEPT !.mem = MemUpdateArtifact(@, t, art)], "")
    [] backend = "drizzle" ->
         LET r == DbUpdateArtifact(st.db, t, art, fk)
         IN Result(r.ok, [st EXCEPT !.db = r.st], r.err)
    [] OTHER -> Result(TRUE, st, "")

GetTaskArtifacts(st, t) ==
  CASE backend = "memory" -> MemGetTaskArtifacts(st.mem, t)
    [] backend = "drizzle" -> DbGetTaskArtifacts(st.db, t)
    [] OTHER -> <<>>

(***************************************************************************)
(* Dispatch core: findExecutor and extractInput                            *)
(***************************************************************************)
\* executors.get(extension)
ExecutorsGet(map, ext) ==
  IF \E i \in 1..Len(map) : map[i].extension = ext
  THEN map[CHOOSE i \in 1..Len(map) : map[i].extension = ext]
  ELSE NoExecutor

\* executors.set(extension, executor): a known key keeps its position
ExecutorsSet(map, ex) ==
  IF \E i \in 1..Len(map) : map[i].extension = ex.extension
  THEN [i \in 1..Len(map) |-> IF map[i].extension = ex.extension THEN ex ELSE map[i]]
  ELSE Append(map, ex)

\* variant: the Map is walked in registration order and the first executor
\* whose extension the message names is taken
findExecutorByRegistration(extensions, map) ==
  IF \E i \in 1..Len(map) : map[i].extension \in Range(extensions)
  THEN map[CHOOSE i \in 1..Len(map) :
             /\ map[i].extension \in Range(extensions)
             /\ \A j \in 1..(i-1) : map[j].extension \notin Range(extensions)]
  ELSE NoExecutor

RECURSIVE findExecutor(_, _)
findExecutor(extensions, map) ==
  IF extensions = <<>> THEN NoExecutor
  ELSE IF ExecutorsGet(map, Head(extensions)) # NoExecutor
       THEN ExecutorsGet(map, Head(extensions))
       ELSE findExecutor(Tail(extensions), map)

\* parts.find(p => p.kind === kind): keys of the first such part, {} if none
FirstPartKeys(parts, kind) ==
  IF \E i \in 1..Len(parts) : parts[i].kind = kind
  THEN parts[CHOOSE i \in 1..Len(parts) :
               parts[i].kind = kind /\ \A j \in 1..(i-1) : parts[j].kind # kind].keys
  ELSE {}

\* keys of the input object; schema.parse succeeds when the required keys are there
extractInput(msg) == FirstPartKeys(msg.parts, "text") \cup FirstPartKeys(msg.parts, "data")

InputValid(msg, ex) == ~ex.hasInput \/ ex.input \subseteq extractInput(msg)

(***************************************************************************)
(* Task lifecycle context (createExecutorContext): each operation hands    *)
(* the event to the sender, awaits it, then writes to storage.             *)
(***************************************************************************)
Event(kind, t, c, state, ref) ==
  [kind |-> kind, taskId |-> t, contextId |-> c, state |-> state, ref |-> ref]

Outcome(ok, st, ev, err) == [ok |-> ok, st |-> st, ev |-> ev, err |-> err]

\* variant: the event is sent but the status is not written to storage
updateStatusEventOnly(st, ev, t, c, state, msg, sendOk) ==
  IF ~sendOk THEN Outcome(FALSE, st, ev, "send failed")
  ELSE Outcome(TRUE, st, Append(ev, Event(STATUS_UPDATE, t, c, state, msg.messageId)), "")

\* variant: a task in a final state accepts no further status
updateStatusFromOpenOnly(st, ev, t, c, state, msg, sendOk) ==
  IF ~sendOk THEN Outcome(FALSE, st, ev, "send failed")
  ELSE IF GetTask(st, t).state \in {"completed", "canceled", "failed", "rejected"}
  THEN Outcome(FALSE, st, Append(ev, Event(STATUS_UPDATE, t, c, state, msg.messageId)),
               "invalid transition")
  ELSE LET r == UpdateTaskStatus(st, t, state, msg)
       IN Outcome(r.ok, r.st, Append(ev, Event(STATUS_UPDATE, t, c, state, msg.messageId)), r.err)

updateStatus(st, ev, t, c, state, msg, sendOk) ==
  IF ~sendOk THEN Outcome(FALSE, st, ev, "send failed")
  ELSE LET r == UpdateTaskStatus(st, t, state, msg)
       IN Outcome(r.ok, r.st, Append(ev, Event(STATUS_UPDATE, t, c, state, msg.messageId)), r.err)

\* variant: the artifact is announced with the kind updateMessage uses
updateArtifactAsStatus(st, ev, t, c, art, sendOk) ==
  IF ~sendOk THEN Outcome(FALSE, st, ev, "send failed")
  ELSE LET r == UpdateArtifact(st, t, art)
       IN Outcome(r.ok, r.st, Append(ev, Event(STATUS_UPDATE, t, c, "working", art.artifactId)), r.err)

updateArtifact(st, ev, t, c, art, sendOk) ==
  IF ~sendOk THEN Outcome(FALSE, st, ev, "send failed")
  ELSE LET r == UpdateArtifact(st, t, art)
       IN Outcome(r.ok, r.st, Append(ev, Event(ARTIFACT_UPDATE, t, c, "", art.artifactId)), r.err)

updateMessage(st, ev, t, c, msg, sendOk) ==
  IF ~sendOk THEN Outcome(FALSE, st, ev, "send failed")
  ELSE LET r == SaveMessage(st, t, msg)
       IN Outcome(r.ok, r.st, Append(ev, Event(STATUS_UPDATE, t, c, "working", msg.messageId)), r.err)

cancelTask(st, ev, t, c, msg, sendOk) ==
  IF ~sendOk THEN Outcome(FALSE, st, ev, "send failed")
  ELSE LET r == UpdateTaskStatus(st, t, "canceled", msg)
       IN Outcome(r.ok, r.st, Append(ev, Event(STATUS_UPDATE, t, c, "canceled", msg.messageId)), r.err)

getTask(st, ev, t) ==
  IF GetTask(st, t).exists THEN Outcome(TRUE, st, ev, "")
  ELSE Outcome(FALSE, st, ev, "Task not found")

(***************************************************************************)
(* Event channel.  "memory": sendSSEEvent writes to the controllers of the *)
(* process-local connections map.  "redis": the event is published on the *)
(* task's channel and every 'message' handler registered on the subscriber *)
(* writes it to the controllers of activeConnections.  A sink is the       *)
(* controller of one stream request; received lists the numbers of the     *)
(* events written to it.                                                   *)
(***************************************************************************)
Channels == {"memory", "redis"}

\* createRedisSSEHandler called once at setup (createRedisA2A) or inside
\* every stream request (redisSSEHandler of executors/a2a.ts)
Wirings == {"once", "perRequest"}

Observers == 1..MaxObservers

NoSink ==
  [pc |-> "unused", task |-> "", since |-> 0, listening |-> FALSE, aborted |-> FALSE,
   cancelled |-> FALSE, closed |-> FALSE, received |-> <<>>, late |-> FALSE]

SseStart(channel, wiring) ==
  [channel |-> channel, wiring |-> wiring, sender |-> channel,
   handlers |-> IF channel = "redis" /\ wiring = "once" THEN 1 ELSE 0,
   keys |-> {},
   connections |-> [t \in TaskIds |-> {}],
   subscribed |-> [t \in TaskIds |-> FALSE],
   sinks |-> [o \in Observers |-> NoSink]]

\* controller.enqueue throws once the stream is closed or cancelled
CanEnqueue(sink) == ~sink.closed /\ ~sink.cancelled

\* for (const controller of controllers) try enqueue, catch: delete
EnqueueAll(x, t, n) ==
  [x EXCEPT
     !.sinks = [o \in Observers |->
                  IF o \in x.connections[t] /\ CanEnqueue(x.sinks[o])
                  THEN [x.sinks[o] EXCEPT !.received = Append(@, n),
                                          !.late = @ \/ x.sinks[o].aborted]
                  ELSE x.sinks[o]],
     !.connections[t] = { o \in @ : CanEnqueue(x.sinks[o]) }]

\* connections.delete(taskId) / activeConnections.delete(taskId)
DeleteKey(x, t) == [x EXCEPT !.keys = @ \ {t}, !.connections[t] = {}]

\* if (controllers.size === 0) delete the key
DeleteKeyIfEmpty(x, t) == IF x.connections[t] = {} THEN DeleteKey(x, t) ELSE x

sendSSEEvent(x, e, n) ==
  IF e.taskId \notin x.keys \/ x.connections[e.taskId] = {} THEN x
  ELSE LET x1 == DeleteKeyIfEmpty(EnqueueAll(x, e.taskId, n), e.taskId)
       IN IF e.kind = ARTIFACT_UPDATE
          THEN DeleteKey([x1 EXCEPT
                            !.sinks = [o \in Observers |->
                                         IF o \in x1.connections[e.taskId]
                                         THEN [x1.sinks[o] EXCEPT !.closed = TRUE]
                                         ELSE x1.sinks[o]]],
                         e.taskId)
          ELSE x1

\* variant: the key stays when the last controller has been removed
onMessageKeepKey(x, t, n) ==
  IF t \notin x.keys \/ x.connections[t] = {}
  THEN [x EXCEPT !.subscribed[t] = FALSE]
  ELSE LET x1 == EnqueueAll(x, t, n)
       IN IF x1.connections[t] = {}
          THEN [x1 EXCEPT !.subscribed[t] = FALSE]
          ELSE x1

\* one run of the subscriber's 'message' handler
onMessage(x, t, n) ==
  IF t \notin x.keys \/ x.connections[t] = {}
  THEN [x EXCEPT !.subscribed[t] = FALSE]
  ELSE LET x1 == EnqueueAll(x, t, n)
       IN IF x1.connections[t] = {}
          THEN [DeleteKey(x1, t) EXCEPT !.subscribed[t] = FALSE]
          ELSE x1

\* the handlers registered on the subscriber run one after the other
RECURSIVE onMessageAll(_, _, _, _)
onMessageAll(x, t, n, k) ==
  IF k = 0 THEN x ELSE onMessageAll(onMessage(x, t, n), t, n, k - 1)

\* createRedisSSEEventSender: publish reaches the process if it subscribed
publish(x, e, n) ==
  IF x.subscribed[e.taskId] THEN onMessageAll(x, e.taskId, n, x.handlers) ELSE x

\* config.events.send applied to the event an operation has just emitted
Forward(x, before, after) ==
  IF Len(after) = Len(before) THEN x
  ELSE IF x.sender = "memory"
  THEN IF x.channel = "memory" THEN sendSSEEvent(x, after[Len(after)], Len(after)) ELSE x
  ELSE publish(x, after[Len(after)], Len(after))

(***************************************************************************)
(* JSON-RPC envelope (handler.ts).  A JSON id is written as a string:      *)
(* "undefined" (member absent), "null", "r1" (a string), "7" (a number),   *)
(* "true" (a boolean).  Other JSON values are records, Undefined standing  *)
(* for undefined.  A response is what NextResponse.json sends: the HTTP    *)
(* status and the serialised body.                                         *)
(***************************************************************************)
Undefined == [undefined |-> TRUE]

\* a ?? b on ids
Nullish(id, d) == IF id \in {"undefined", "null"} THEN d ELSE id

\* JSON.stringify leaves out the members whose value is undefined
Json(obj) ==
  [k \in { m \in DOMAIN obj : IF m = "id" THEN obj[m] # "undefined"
                              ELSE IF m = "jsonrpc" THEN TRUE
                              ELSE obj[m] # Undefined } |-> obj[k]]

JsonMembers(obj) == [k \in { m \in DOMAIN obj : obj[m] # Undefined } |-> obj[k]]

INVALID_REQUEST == -32600
METHOD_NOT_FOUND == -32601
INVALID_PARAMS == -32602
INTERNAL_ERROR == -32603
TASK_NOT_FOUND == -32001
EXECUTOR_NOT_FOUND == -32002
STORAGE_ERROR == -32003

NextResponseJson(body, status) == [status |-> status, body |-> Json(body)]

\* variant: the HTTP status follows the error
createErrorResponseHttpStatus(id, code, message, data) ==
  NextResponseJson([jsonrpc |-> "2.0", id |-> id,
                    error |-> JsonMembers([code |-> [n |-> code],
                                           message |-> [s |-> message],
                                           data |-> data])],
                   IF code = INVALID_REQUEST THEN 400 ELSE 500)

createErrorResponse(id, code, message, data) ==
  NextResponseJson([jsonrpc |-> "2.0", id |-> id,
                    error |-> JsonMembers([code |-> [n |-> code],
                                           message |-> [s |-> message],
                                           data |-> data])],
                   200)

createSuccessResponse(id, result) ==
  NextResponseJson([jsonrpc |-> "2.0", id |-> id, result |-> JsonMembers(result)], 200)

NoResponse == [status |-> 0, body |-> Undefined]

\* a request body: json tells what request.json() makes of the posted text,
\* the other fields are the members of the object
Params(valid, message, taskId, contextId) ==
  [valid |-> valid, message |-> message, taskId |-> taskId, contextId |-> contextId]

Body(json, jsonrpc, id, method, params) ==
  [json |-> json, jsonrpc |-> jsonrpc, id |-> id, method |-> method, params |-> params]

NoParams == Params(FALSE, NoMsg, "", "")

NoBody == Body("", "", "undefined", "", NoParams)

\* sending: the message/send request whose execute has not returned;
\* request: the request that response answers; created: whether the task
\* of a message/send was new to storage
NoRpc == [pending |-> FALSE, id |-> "null", taskId |-> "", message |-> NoMsg,
          sending |-> NoBody, request |-> NoBody, created |-> FALSE,
          sent |-> 0, requestId |-> "undefined", response |-> NoResponse]

\* variant: every rejection of execute is rethrown to handlePostRequest
handleMessageSendRethrow(x, outcome) ==
  [x EXCEPT
     !.pending = FALSE,
     !.sent = @ + 1,
     !.requestId = x.id,
     !.request = x.sending,
     !.response =
        IF outcome.ok
        THEN createSuccessResponse(x.id,
               [task |-> [contextId |-> IF x.message.contextId # ""
                                        THEN x.message.contextId ELSE "default",
                          id |-> x.taskId, state |-> "submitted",
                          history |-> <<x.message>>],
                streamUrl |-> [path |-> "/api/a2a/events", taskId |-> x.taskId]])
        ELSE createErrorResponse(x.id, INTERNAL_ERROR, "Internal server error",
                                 [s |-> outcome.err])]

\* handleMessageSend after await a2a.execute: outcome is what execute
\* resolved or rejected with
handleMessageSendReturn(x, outcome) ==
  [x EXCEPT
     !.pending = FALSE,
     !.sent = @ + 1,
     !.requestId = x.id,
     !.request = x.sending,
     !.response =
        IF outcome.ok
        THEN createSuccessResponse(x.id,
               [task |-> [contextId |-> IF x.message.contextId # ""
                                        THEN x.message.contextId ELSE "default",
                          id |-> x.taskId, state |-> "submitted",
                          history |-> <<x.message>>],
                streamUrl |-> [path |-> "/api/a2a/events", taskId |-> x.taskId]])
        ELSE IF outcome.err = "No executor found"
        THEN createErrorResponse(x.id, EXECUTOR_NOT_FOUND, "No executor found for extensions",
                                 [extensions |-> x.message.extensions])
        ELSE createErrorResponse(x.id, INTERNAL_ERROR, "Internal server error",
                                 [s |-> outcome.err])]

(***************************************************************************)
(* Research workflows (Inngest functions).  A run is at a step, or waits   *)
(* at a step.waitForEvent, or has returned, or has failed.  v1 is the      *)
(* "research" function, v2 holds the runs of "research-with-a2a-v2".       *)
(***************************************************************************)
Runs == 1..MaxRuns

\* inputs of the three executors registered on the shared instance
ThemePart == [kind |-> "data", keys |-> {"theme"}]
DecisionPart == [kind |-> "data", keys |-> {"requestId", "decision"}]

researchStartExecutorV2 ==
  [extension |-> "research/v2/start", hasInput |-> TRUE, input |-> {"theme"},
   body |-> <<>>]
planApprovalExecutorV2 ==
  [extension |-> "research/v2/plan-approval", hasInput |-> TRUE,
   input |-> {"requestId", "decision"}, body |-> <<>>]
executionApprovalExecutorV2 ==
  [extension |-> "research/v2/execution-approval", hasInput |-> TRUE,
   input |-> {"requestId", "decision"}, body |-> <<>>]

\* user messages: a start request, the two approval answers, and an answer
\* whose parts do not satisfy the executor's input schema
ResearchMessages ==
  { Message("u1", <<"research/v2/start">>, <<ThemePart>>, TRUE),
    Message("u2", <<"research/v2/plan-approval">>, <<DecisionPart>>, TRUE),
    Message("u3", <<"research/v2/execution-approval">>, <<DecisionPart>>, TRUE),
    Message("u4", <<"research/v2/plan-approval">>, <<TextPart>>, TRUE) }

Decisions == {"approve", "reject"}

NoResearch ==
  [pc |-> "idle", iteration |-> 0, plans |-> <<>>, executed |-> 0, executions |-> <<>>]

NoRun ==
  [pc |-> "idle", taskId |-> "", contextId |-> "", plan |-> "none",
   execution |-> "none", result |-> ""]

NoWorkflows == [v1 |-> NoResearch, v2 |-> [r \in Runs |-> NoRun], sent |-> 0]

\* the module executors/a2a.ts before it is evaluated
NoBoot ==
  [pc |-> "unloaded", useRedis |-> FALSE, imports |-> "none",
   redisEventSender |-> "null", redisSSEHandler |-> "null", eventSender |-> ""]

(***************************************************************************)
(* State machine of one A2A instance                                       *)
(***************************************************************************)
Last(op, t, ok, err, state, existed, ref) ==
  [op |-> op, taskId |-> t, ok |-> ok, err |-> err, state |-> state,
   existed |-> existed, ref |-> ref, parts |-> "", repeat |-> FALSE, http |-> 0]

NoCall ==
  [active |-> FALSE, taskId |-> "", contextId |-> "", extension |-> "", body |-> <<>>,
   message |-> NoMsg, evStart |-> 0, fresh |-> FALSE, alone |-> FALSE,
   resumes |-> FALSE,
   seen |-> NoTask]

IdleSave == [pc |-> "idle", taskId |-> "", message |-> NoMsg, rowId |-> 0, sequence |-> 0]

SaveSlots == {1, 2}

InitCore ==
  /\ backend \in Backends
  /\ fk \in BOOLEAN
  /\ (backend # "drizzle" => ~fk)
  /\ executors = <<>>
  /\ store = StoreInit
  /\ clock = 0
  /\ events = <<>>
  /\ call = NoCall
  /\ saves = [i \in SaveSlots |-> IdleSave]
  /\ last = Last("none", "", TRUE, "", "", FALSE, "")
  /\ attached = [t \in TaskIds |-> <<>>]
  /\ saveLog = [t \in TaskIds |-> <<>>]
  /\ overlap = [t \in TaskIds |-> FALSE]
  /\ ops = [calls |-> 0, adapter |-> 0]
  /\ rpc = NoRpc
  /\ wf = NoWorkflows
  /\ boot = NoBoot

\* the instance with the in-memory event channel and no observer
Init == InitCore /\ sse = SseStart("memory", "once")

Attach(log, t, msg) == IF msg = NoMsg THEN log ELSE [log EXCEPT ![t] = Append(@, msg)]

\* memory updateTaskStatus saves the status message through saveMessage
StatusSaveLog(log, t, msg, ok) ==
  IF ok /\ backend = "memory" THEN Attach(log, t, msg) ELSE log

\* a2a.register(executor), done while the instance is being set up
Register(ex) ==
  /\ ops.calls = 0 /\ ops.adapter = 0
  /\ ExecutorsGet(executors, ex.extension) = NoExecutor
  /\ executors' = ExecutorsSet(executors, ex)
  /\ UNCHANGED <<boot, wf, rpc, sse, backend, fk, store, clock, events, call, saves, last,
                 attached, saveLog, overlap, ops>>

\* variant: the task row is written before the executor and the ids are
\* checked
executeChecksAfterSave(st, executor, taskId, contextId, msg) ==
  LET st1 == IF taskId # ""
             THEN SaveTask(st, Task(taskId, contextId, "submitted", msg, <<>>, <<>>))
             ELSE st
  IN IF executor = NoExecutor THEN Result(FALSE, st1, "No executor found")
     ELSE IF taskId = "" \/ contextId = ""
     THEN Result(FALSE, st1, "taskId and contextId are required")
     ELSE Result(TRUE, st, "")

\* the two throws of execute that come before its first storage call
executeChecks(st, executor, taskId, contextId, msg) ==
  IF executor = NoExecutor THEN Result(FALSE, st, "No executor found")
  ELSE IF taskId = "" \/ contextId = ""
  THEN Result(FALSE, st, "taskId and contextId are required")
  ELSE Result(TRUE, st, "")

\* a2a.execute(message, options) up to the invocation of the executor
Execute(msg, opt) ==
  /\ ~call.active
  /\ ops.calls < MaxCalls
  /\ ops' = [ops EXCEPT !.calls = @ + 1]
  /\ LET executor == findExecutor(msg.extensions, executors)
         taskId == IF opt.taskId # "" THEN opt.taskId ELSE msg.taskId
         contextId == IF opt.contextId # "" THEN opt.contextId ELSE msg.contextId
         checks == executeChecks(store, executor, taskId, contextId, msg)
     IN IF ~checks.ok
        THEN /\ last' = Last("execute", IF executor = NoExecutor THEN "" ELSE taskId,
                              FALSE, checks.err, "", FALSE, msg.messageId)
             /\ store' = checks.st
             /\ UNCHANGED <<call, attached, saveLog>>
        ELSE LET before == GetTask(store, taskId)
                 st1 == SaveTask(store, Task(taskId, contextId, "submitted", msg, <<>>, <<>>))
                 r2 == SaveMessage(st1, taskId, msg)
                 started == [active |-> TRUE, taskId |-> taskId, contextId |-> contextId,
                             extension |-> executor.extension, body |-> executor.body,
                             message |-> msg, evStart |-> Len(events),
                             fresh |-> ~before.exists /\ GetTaskArtifacts(store, taskId) = <<>>,
                             alone |-> TRUE,
                             resumes |-> /\ before.state = "input-required"
                                         /\ Artifact("a0", "p1") \in
                                              Range(GetTaskArtifacts(store, taskId))
                                         /\ AgentMsg \in Range(attached[taskId]),
                             seen |-> NoTask]
             IN /\ store' = r2.st
                /\ attached' = IF r2.ok THEN Attach(attached, taskId, msg) ELSE attached
                /\ saveLog' = IF r2.ok /\ backend # "none"
                               THEN Attach(saveLog, taskId, msg) ELSE saveLog
                /\ IF ~r2.ok
                   THEN /\ last' = Last("execute", taskId, FALSE, r2.err, "", before.exists,
                                         msg.messageId)
                        /\ call' = [started EXCEPT !.active = FALSE]
                   ELSE IF ~InputValid(msg, executor)
                   THEN /\ last' = Last("execute", taskId, FALSE, "validation", "",
                                         before.exists, msg.messageId)
                        /\ call' = [started EXCEPT !.active = FALSE]
                   ELSE /\ last' = Last("execute-start", taskId, TRUE, "", "submitted",
                                         before.exists, msg.messageId)
                        /\ call' = started
  /\ UNCHANGED <<boot, wf, sse, backend, fk, executors, clock, events, saves, overlap>>

\* one lifecycle call of the running executor body; the call that ends the
\* body also returns from execute, a failing call makes execute reject
ExecutorStep(sendOk) ==
  /\ call.active
  /\ call.body # <<>>
  /\ LET step == Head(call.body)
         t == call.taskId
         c == call.contextId
         o == CASE step.op = "updateStatus" ->
                     updateStatus(store, events, t, c, step.state, step.msg, sendOk)
                [] step.op = "updateArtifact" ->
                     updateArtifact(store, events, t, c, Artifact(step.artifactId, step.parts), sendOk)
                [] step.op = "getTask" -> getTask(store, events, t)
         rest == Tail(call.body)
     IN /\ store' = o.st
        /\ events' = o.ev
        /\ attached' = IF o.ok /\ step.op = "updateStatus"
                        THEN Attach(attached, t, step.msg) ELSE attached
        /\ saveLog' = IF step.op = "updateStatus"
                       THEN StatusSaveLog(saveLog, t, step.msg, o.ok) ELSE saveLog
        /\ call' = [call EXCEPT !.active = o.ok /\ rest # <<>>,
                                !.body = IF o.ok THEN rest ELSE @,
                                !.seen = IF o.ok /\ step.op = "getTask"
                                         THEN GetTask(store, t) ELSE @]
        /\ last' = IF ~o.ok
                    THEN Last("execute", t, FALSE, o.err, "", GetTask(store, t).exists, step.op)
                    ELSE IF rest = <<>>
                    THEN Last("execute", t, TRUE, "", step.state, GetTask(store, t).exists, step.op)
                    ELSE Last("execute-step", t, TRUE, "", step.state,
                              GetTask(store, t).exists, step.op)
  /\ UNCHANGED <<boot, wf, backend, fk, executors, clock, saves, overlap, ops>>
  /\ sse' = Forward(sse, events, events')
  /\ rpc' = IF rpc.pending /\ ~call'.active THEN handleMessageSendReturn(rpc, last') ELSE rpc

\* lifecycle operations called on the instance by an outside caller; a task
\* has one writer at a time, so not on the task of the running executor
Writable(t) == ~(call.active /\ call.taskId = t)

Lifecycle(op, t, o, state, msg, ref) ==
  /\ ops.calls < MaxCalls
  /\ ops' = [ops EXCEPT !.calls = @ + 1]
  /\ store' = o.st
  /\ events' = o.ev
  /\ last' = IF o.err = "send failed"
              THEN Last(op, t, FALSE, o.err, "", GetTask(store, t).exists, "")
              ELSE Last(op, t, o.ok, o.err, state, GetTask(store, t).exists, ref)
  /\ attached' = IF o.ok THEN Attach(attached, t, msg) ELSE attached
  /\ call' = IF call.active THEN [call EXCEPT !.alone = FALSE] ELSE call
  /\ UNCHANGED <<boot, wf, backend, fk, executors, clock, saves, overlap>>
  /\ sse' = Forward(sse, events, events')

CallUpdateStatus(t, c, state, msg, sendOk) ==
  /\ Writable(t)
  /\ LET o == updateStatus(store, events, t, c, state, msg, sendOk)
     IN /\ Lifecycle("updateStatus", t, o, state, msg, msg.messageId)
        /\ saveLog' = StatusSaveLog(saveLog, t, msg, o.ok)
  /\ UNCHANGED rpc

\* cancelTask only marks the status: it is also called from outside on the
\* task of an executor that is still running
CallCancelTask(t, c, msg, sendOk) ==
  /\ LET o == cancelTask(store, events, t, c, msg, sendOk)
     IN /\ Lifecycle("cancelTask", t, o, "canceled", msg, msg.messageId)
        /\ saveLog' = StatusSaveLog(saveLog, t, msg, o.ok)

CallUpdateMessage(t, c, msg, sendOk) ==
  /\ Writable(t)
  /\ LET o == updateMessage(store, events, t, c, msg, sendOk)
     IN /\ Lifecycle("updateMessage", t, o, "working", msg, msg.messageId)
        /\ saveLog' = IF o.ok /\ backend # "none" THEN Attach(saveLog, t, msg) ELSE saveLog
  /\ UNCHANGED rpc

CallUpdateArtifact(t, c, art, sendOk) ==
  /\ Writable(t)
  /\ LET o == updateArtifact(store, events, t, c, art, sendOk)
     IN /\ Lifecycle("updateArtifact", t, o, "", NoMsg, art.artifactId)
        /\ UNCHANGED <<saveLog, rpc>>

CallGetTask(t) ==
  /\ LET o == getTask(store, events, t)
     IN Lifecycle("getTask", t, o, GetTask(store, t).state, NoMsg, "")
  /\ UNCHANGED <<saveLog, rpc>>

ExecOptions ==
  { [taskId |-> t, contextId |-> c] : t \in TaskIds, c \in ContextIds }
    \cup { [taskId |-> "", contextId |-> ""] }

Next ==
  \/ \E ex \in ExecutorDefs : Register(ex)
  \/ \E msg \in InboundMessages, opt \in ExecOptions : Execute(msg, opt) /\ UNCHANGED rpc
  \/ \E sendOk \in BOOLEAN : ExecutorStep(sendOk)
  \/ \E t \in TaskIds, c \in ContextIds, status \in StatusInputs, sendOk \in BOOLEAN :
        CallUpdateStatus(t, c, status.state, status.message, sendOk)
  \/ \E t \in TaskIds, c \in ContextIds, msg \in StatusMessages, sendOk \in BOOLEAN :
        CallCancelTask(t, c, msg, sendOk) /\ UNCHANGED rpc
  \/ \E t \in TaskIds, c \in ContextIds, sendOk \in BOOLEAN :
        CallUpdateMessage(t, c, AgentMsg, sendOk)
  \/ \E t \in TaskIds, c \in ContextIds, a \in ArtifactIds, p \in PartsValues,
        sendOk \in BOOLEAN : CallUpdateArtifact(t, c, Artifact(a, p), sendOk)
  \/ \E t \in TaskIds : CallGetTask(t)

Spec == Init /\ [][Next]_vars

(***************************************************************************)
(* The StorageAdapter used directly (as the adapter tests do).  A memory   *)
(* adapter method runs to completion; DrizzleStorageAdapter.saveMessage    *)
(* awaits three statements, and other calls run between them.              *)
(***************************************************************************)
AdapterCall ==
  /\ ops.adapter < MaxAdapterCalls
  /\ ops' = [ops EXCEPT !.adapter = @ + 1]

AdapterSaveTask(t, c) ==
  /\ AdapterCall
  /\ store' = SaveTask(store, Task(t, c, "submitted", NoMsg, <<>>, <<>>))
  /\ last' = Last("saveTask", t, TRUE, "", "submitted", GetTask(store, t).exists, "")
  /\ UNCHANGED <<boot, wf, rpc, sse, backend, fk, executors, clock, events, call, saves,
                 attached, saveLog, overlap>>

AdapterUpdateArtifact(t, art) ==
  /\ AdapterCall
  /\ LET r == UpdateArtifact(store, t, art)
     IN /\ store' = r.st
        /\ last' = [Last("adapter.updateArtifact", t, r.ok, r.err, "",
                         GetTask(store, t).exists, art.artifactId)
                      EXCEPT !.parts = art.parts,
                             !.repeat = \E old \in Range(GetTaskArtifacts(store, t)) :
                                          /\ old.artifactId = art.artifactId
                                          /\ old.parts # art.parts]
  /\ UNCHANGED <<boot, wf, rpc, sse, backend, fk, executors, clock, events, call, saves,
                 attached, saveLog, overlap>>

\* updateTaskStatus(taskId, {state, message}) called on the adapter
AdapterUpdateTaskStatus(t, state, msg) ==
  /\ AdapterCall
  /\ LET r == UpdateTaskStatus(store, t, state, msg)
     IN /\ store' = r.st
        /\ saveLog' = StatusSaveLog(saveLog, t, msg, r.ok)
        /\ last' = Last("adapter.updateTaskStatus", t, r.ok, r.err, state,
                        GetTask(store, t).exists, msg.messageId)
  /\ UNCHANGED <<boot, wf, rpc, sse, backend, fk, executors, clock, events, call, saves,
                 attached, overlap>>

InFlight(t) == { j \in SaveSlots : saves[j].pc # "idle" /\ saves[j].taskId = t }

\* saveMessage is called: the memory adapter appends; the Drizzle adapter
\* runs its first statement, the insert into messages
SaveMessageCall(i, t, msg) ==
  /\ AdapterCall
  /\ saves[i].pc = "idle"
  /\ \A j \in SaveSlots : j < i => saves[j].pc # "idle"
  /\ IF backend = "memory"
     THEN /\ store' = SaveMessage(store, t, msg).st
          /\ saveLog' = Attach(saveLog, t, msg)
          /\ last' = Last("saveMessage", t, TRUE, "", "", GetTask(store, t).exists, msg.messageId)
          /\ UNCHANGED <<saves, overlap>>
     ELSE LET r == DbInsertMessage(store.db, t, msg, clock, fk)
          IN /\ store' = [store EXCEPT !.db = r.st]
             /\ IF r.ok
                THEN /\ saves' = [saves EXCEPT ![i] =
                                    [pc |-> "select", taskId |-> t, message |-> msg,
                                     rowId |-> store.db.nextId, sequence |-> 0]]
                     /\ overlap' = [overlap EXCEPT ![t] = @ \/ InFlight(t) # {}]
                     /\ last' = Last("saveMessage-insert", t, TRUE, "", "",
                                     GetTask(store, t).exists, msg.messageId)
                ELSE /\ last' = Last("saveMessage", t, FALSE, r.err, "",
                                     GetTask(store, t).exists, msg.messageId)
                     /\ UNCHANGED <<saves, overlap>>
             /\ UNCHANGED saveLog
  /\ UNCHANGED <<boot, wf, rpc, sse, backend, fk, executors, clock, events, call, attached>>

\* second statement: SELECT max(sequence) for the task
SaveMessageSelect(i) ==
  /\ saves[i].pc = "select"
  /\ saves' = [saves EXCEPT ![i].pc = "insert",
                             ![i].sequence = DbNextSequence(store.db, saves[i].taskId)]
  /\ UNCHANGED <<boot, wf, rpc, sse, backend, fk, executors, store, clock, events, call, last,
                 attached, saveLog, overlap, ops>>

\* third statement: the insert into task_messages; the call resolves
SaveMessageInsert(i) ==
  /\ saves[i].pc = "insert"
  /\ store' = [store EXCEPT !.db =
                  DbInsertTaskMessage(@, saves[i].taskId, saves[i].rowId,
                                      saves[i].sequence, clock)]
  /\ saveLog' = Attach(saveLog, saves[i].taskId, saves[i].message)
  /\ last' = Last("saveMessage", saves[i].taskId, TRUE, "", "", TRUE,
                  saves[i].message.messageId)
  /\ saves' = [saves EXCEPT ![i] = IdleSave]
  /\ UNCHANGED <<boot, wf, rpc, sse, backend, fk, executors, clock, events, call, attached, overlap, ops>>

\* the database clock advances (created_at defaults to unixepoch())
Tick ==
  /\ backend = "drizzle"
  /\ clock < MaxClock
  /\ clock' = clock + 1
  /\ UNCHANGED <<boot, wf, rpc, sse, backend, fk, executors, store, events, call, saves, last,
                 attached, saveLog, overlap, ops>>

AdapterInit == Init /\ backend # "none"

AdapterNext ==
  \/ \E t \in TaskIds, c \in ContextIds : AdapterSaveTask(t, c)
  \/ \E t \in TaskIds, a \in ArtifactIds, p \in PartsValues :
        AdapterUpdateArtifact(t, Artifact(a, p))
  \/ \E t \in TaskIds, msg \in AdapterMessages : AdapterUpdateTaskStatus(t, "working", msg)
  \/ \E i \in SaveSlots, t \in TaskIds, msg \in AdapterMessages : SaveMessageCall(i, t, msg)
  \/ \E i \in SaveSlots : SaveMessageSelect(i)
  \/ \E i \in SaveSlots : SaveMessageInsert(i)
  \/ Tick

AdapterSpec == AdapterInit /\ [][AdapterNext]_vars

(***************************************************************************)
(* The REST sub-API in front of the instance: the dynamic route handlers   *)
(* called by out-of-process callers, next to execute and the executors.    *)
(***************************************************************************)
\* status.state of a request body: the JSON is cast to TaskStatus unchecked
RequestStates == TaskStateSchema \cup {"bogus"}

\* contextId query parameter: "" when the parameter is absent
RequestContextIds == ContextIds \cup {""}

\* what a REST handler answered: NextResponse.json(body, {status}), status
\* 200 when none is given
RestLast(op, t, http, err, state, existed) ==
  [Last(op, t, http = 200, err, state, existed, "") EXCEPT !.http = http]

\* variant: the status is updated without looking the task up first
updateStatusHandlerNoLookup(t, c, state, sendOk) ==
  /\ ops.calls < MaxCalls
  /\ ops' = [ops EXCEPT !.calls = @ + 1]
  /\ IF c = ""
     THEN /\ last' = RestLast("rest.status", t, 400, "400 contextId is required", "",
                               GetTask(store, t).exists)
          /\ UNCHANGED <<store, events, call>>
     ELSE LET o == updateStatus(store, events, t, c, state, NoMsg, sendOk)
          IN /\ store' = o.st
             /\ events' = o.ev
             /\ last' = IF o.ok THEN RestLast("rest.status", t, 200, "", state, TRUE)
                         ELSE RestLast("rest.status", t, 500, "500", "",
                                       GetTask(store, t).exists)
             /\ call' = IF call.active THEN [call EXCEPT !.alone = FALSE] ELSE call
  /\ UNCHANGED <<boot, wf, rpc, backend, fk, executors, clock, saves, attached, saveLog, overlap>>
  /\ sse' = Forward(sse, events, events')

\* POST tasks/:taskId/status
updateStatusHandler(t, c, state, sendOk) ==
  /\ ops.calls < MaxCalls
  /\ ops' = [ops EXCEPT !.calls = @ + 1]
  /\ IF c = ""
     THEN /\ last' = RestLast("rest.status", t, 400, "400 contextId is required", "",
                               GetTask(store, t).exists)
          /\ UNCHANGED <<store, events, call>>
     ELSE IF ~getTask(store, events, t).ok
     THEN /\ last' = RestLast("rest.status", t, 500, "500 Task not found", "", FALSE)
          /\ UNCHANGED <<store, events, call>>
     ELSE IF ~GetTask(store, t).exists
     THEN /\ last' = RestLast("rest.status", t, 404, "404 Task not found", "", FALSE)
          /\ UNCHANGED <<store, events, call>>
     ELSE LET o == updateStatus(store, events, t, c, state, NoMsg, sendOk)
          IN /\ store' = o.st
             /\ events' = o.ev
             /\ last' = IF o.ok THEN RestLast("rest.status", t, 200, "", state, TRUE)
                         ELSE RestLast("rest.status", t, 500, "500", "", TRUE)
             /\ call' = IF call.active THEN [call EXCEPT !.alone = FALSE] ELSE call
  /\ UNCHANGED <<boot, wf, rpc, backend, fk, executors, clock, saves, attached, saveLog, overlap>>
  /\ sse' = Forward(sse, events, events')

\* POST tasks/:taskId/messages
createMessageHandler(t, c, msg, sendOk) ==
  /\ ops.calls < MaxCalls
  /\ ops' = [ops EXCEPT !.calls = @ + 1]
  /\ IF c = ""
     THEN /\ last' = RestLast("rest.messages", t, 400, "400 contextId is required", "",
                               GetTask(store, t).exists)
          /\ UNCHANGED <<store, events, call, attached, saveLog>>
     ELSE IF ~getTask(store, events, t).ok
     THEN /\ last' = RestLast("rest.messages", t, 500, "500 Task not found", "", FALSE)
          /\ UNCHANGED <<store, events, call, attached, saveLog>>
     ELSE IF ~GetTask(store, t).exists
     THEN /\ last' = RestLast("rest.messages", t, 404, "404 Task not found", "", FALSE)
          /\ UNCHANGED <<store, events, call, attached, saveLog>>
     ELSE LET o == updateMessage(store, events, t, c, msg, sendOk)
          IN /\ store' = o.st
             /\ events' = o.ev
             /\ last' = IF o.ok THEN RestLast("rest.messages", t, 200, "", "working", TRUE)
                         ELSE RestLast("rest.messages", t, 500, "500", "", TRUE)
             /\ attached' = IF o.ok THEN Attach(attached, t, msg) ELSE attached
             /\ saveLog' = IF o.ok /\ backend # "none" THEN Attach(saveLog, t, msg) ELSE saveLog
             /\ call' = IF call.active THEN [call EXCEPT !.alone = FALSE] ELSE call
  /\ UNCHANGED <<boot, wf, rpc, backend, fk, executors, clock, saves, overlap>>
  /\ sse' = Forward(sse, events, events')

\* POST tasks/:taskId/artifacts
createArtifactHandler(t, c, art, sendOk) ==
  /\ ops.calls < MaxCalls
  /\ ops' = [ops EXCEPT !.calls = @ + 1]
  /\ IF c = ""
     THEN /\ last' = RestLast("rest.artifacts", t, 400, "400 contextId is required", "",
                               GetTask(store, t).exists)
          /\ UNCHANGED <<store, events, call>>
     ELSE IF ~getTask(store, events, t).ok
     THEN /\ last' = RestLast("rest.artifacts", t, 500, "500 Task not found", "", FALSE)
          /\ UNCHANGED <<store, events, call>>
     ELSE IF ~GetTask(store, t).exists
     THEN /\ last' = RestLast("rest.artifacts", t, 404, "404 Task not found", "", FALSE)
          /\ UNCHANGED <<store, events, call>>
     ELSE LET o == updateArtifact(store, events, t, c, art, sendOk)
          IN /\ store' = o.st
             /\ events' = o.ev
             /\ last' = IF o.ok THEN RestLast("rest.artifacts", t, 200, "", "", TRUE)
                         ELSE RestLast("rest.artifacts", t, 500, "500", "", TRUE)
             /\ call' = IF call.active THEN [call EXCEPT !.alone = FALSE] ELSE call
  /\ UNCHANGED <<boot, wf, rpc, backend, fk, executors, clock, saves, attached, saveLog, overlap>>
  /\ sse' = Forward(sse, events, events')

\* GET tasks/:taskId
getTaskHandler(t) ==
  /\ ops.calls < MaxCalls
  /\ ops' = [ops EXCEPT !.calls = @ + 1]
  /\ last' = IF ~getTask(store, events, t).ok
              THEN RestLast("rest.task", t, 500, "500 Task not found", "", FALSE)
              ELSE IF ~GetTask(store, t).exists
              THEN RestLast("rest.task", t, 404, "404 Task not found", "", FALSE)
              ELSE RestLast("rest.task", t, 200, "", GetTask(store, t).state, TRUE)
  /\ UNCHANGED <<boot, wf, rpc, backend, fk, executors, store, clock, events, call, saves,
                 attached, saveLog, overlap, sse>>

RestNext ==
  \/ \E ex \in ExecutorDefs : Register(ex)
  \/ \E msg \in InboundMessages, opt \in ExecOptions : Execute(msg, opt) /\ UNCHANGED rpc
  \/ \E sendOk \in BOOLEAN : ExecutorStep(sendOk)
  \/ \E t \in TaskIds, c \in RequestContextIds, state \in RequestStates, sendOk \in BOOLEAN :
        updateStatusHandler(t, c, state, sendOk)
  \/ \E t \in TaskIds, c \in RequestContextIds, sendOk \in BOOLEAN :
        createMessageHandler(t, c, AgentMsg, sendOk)
  \/ \E t \in TaskIds, c \in RequestContextIds, a \in ArtifactIds, p \in PartsValues,
        sendOk \in BOOLEAN : createArtifactHandler(t, c, Artifact(a, p), sendOk)
  \/ \E t \in TaskIds : getTaskHandler(t)

RestSpec == Init /\ [][RestNext]_vars

(***************************************************************************)
(* Stream requests in front of the instance, whose events.send is the      *)
(* sender of the channel (it never rejects).  A request takes the next     *)
(* unused sink; the client may disconnect at any moment afterwards, and    *)
(* the runtime may or may not have cancelled the stream by then.           *)
(***************************************************************************)
\* the status message of createSSEHandler ("SSE connection established")
SseMsg == Message("s1", <<>>, <<TextPart>>, TRUE)

\* taskId query parameter: "" when the parameter is absent
RequestTaskIds == TaskIds \cup {""}

NextSink(o) ==
  /\ sse.sinks[o].pc = "unused"
  /\ \A p \in Observers : p < o => sse.sinks[p].pc # "unused"

\* GET events?taskId= on the in-memory channel
createSSEHandler(o, t, c) ==
  /\ sse.channel = "memory"
  /\ NextSink(o)
  /\ IF t = ""
     THEN /\ sse' = [sse EXCEPT !.sinks[o].pc = "refused"]
          /\ last' = Last("sse.connect", t, FALSE, "400 Missing taskId parameter", "", FALSE, "")
          /\ UNCHANGED <<store, events, attached, saveLog, call>>
     ELSE LET x1 == [sse EXCEPT !.keys = @ \cup {t},
                                !.connections[t] = @ \cup {o},
                                !.sinks[o] = [NoSink EXCEPT !.pc = "streaming", !.task = t,
                                                            !.since = Len(events),
                                                            !.listening = TRUE]]
              r == updateStatus(store, events, t, c, "working", SseMsg, TRUE)
          IN /\ store' = r.st
             /\ events' = r.ev
             /\ sse' = Forward(x1, events, r.ev)
             /\ attached' = IF r.ok THEN Attach(attached, t, SseMsg) ELSE attached
             /\ saveLog' = StatusSaveLog(saveLog, t, SseMsg, r.ok)
             /\ call' = IF call.active THEN [call EXCEPT !.alone = FALSE] ELSE call
             /\ last' = Last("sse.connect", t, TRUE, "", "working", GetTask(store, t).exists, "")
  /\ UNCHANGED <<boot, wf, rpc, backend, fk, executors, clock, saves, overlap, ops>>

\* GET events?taskId= on the Redis channel, up to the await of subscribe
createRedisSSEHandler(o, t) ==
  /\ sse.channel = "redis"
  /\ NextSink(o)
  /\ LET x0 == [sse EXCEPT !.handlers = IF sse.wiring = "perRequest" THEN @ + 1 ELSE @]
     IN IF t = ""
        THEN /\ sse' = [x0 EXCEPT !.sinks[o].pc = "refused"]
             /\ last' = Last("sse.connect", t, FALSE, "400 Missing taskId parameter", "",
                              FALSE, "")
        ELSE IF ~getTask(store, events, t).ok
        THEN /\ sse' = [x0 EXCEPT !.sinks[o].pc = "refused"]
             /\ last' = Last("sse.connect", t, FALSE, "Task not found", "", FALSE, "")
        ELSE /\ sse' = [x0 EXCEPT !.keys = @ \cup {t},
                                   !.connections[t] = @ \cup {o},
                                   !.subscribed[t] = TRUE,
                                   !.sinks[o] = [NoSink EXCEPT !.pc = "subscribing", !.task = t,
                                                               !.since = Len(events)]]
             /\ last' = Last("sse.connect", t, TRUE, "", "", TRUE, "")
  /\ UNCHANGED <<boot, wf, rpc, backend, fk, executors, store, clock, events, call, saves,
                 attached, saveLog, overlap, ops>>

\* subscribe has resolved: the 'connected' frame is written, then the abort
\* listener is added (a listener added to an aborted signal never runs)
onSubscribed(o) ==
  /\ sse.sinks[o].pc = "subscribing"
  /\ sse' = [sse EXCEPT !.sinks[o].pc = "streaming",
                         !.sinks[o].listening = CanEnqueue(sse.sinks[o])
                                                  /\ ~sse.sinks[o].aborted]
  /\ UNCHANGED <<boot, wf, rpc, backend, fk, executors, store, clock, events, call, saves, last,
                 attached, saveLog, overlap, ops>>

\* the request's abort signal fires (the client disconnected)
onAbort(o, cancelled) ==
  /\ sse.sinks[o].pc \in {"subscribing", "streaming"}
  /\ ~sse.sinks[o].aborted
  /\ LET t == sse.sinks[o].task
         x1 == [sse EXCEPT !.sinks[o].aborted = TRUE, !.sinks[o].cancelled = cancelled]
     IN sse' = IF ~sse.sinks[o].listening THEN x1
               ELSE IF sse.channel = "memory"
               THEN IF t \in x1.keys
                    THEN DeleteKeyIfEmpty([x1 EXCEPT !.connections[t] = @ \ {o}], t)
                    ELSE x1
               ELSE IF t \in x1.keys
               THEN [DeleteKeyIfEmpty([x1 EXCEPT !.connections[t] = @ \ {o}], t)
                       EXCEPT !.subscribed[t] = IF x1.connections[t] \ {o} = {}
                                                THEN FALSE ELSE @,
                              !.sinks[o].closed = TRUE]
               ELSE [x1 EXCEPT !.sinks[o].closed = TRUE]
  /\ UNCHANGED <<boot, wf, rpc, backend, fk, executors, store, clock, events, call, saves, last,
                 attached, saveLog, overlap, ops>>

SseInit ==
  /\ InitCore
  /\ backend = "memory"
  /\ sse \in {SseStart("memory", "once"), SseStart("redis", "once"),
               SseStart("redis", "perRequest")}

\* the stream's clients send their messages for one task
SseExecOptions == { opt \in ExecOptions : opt.taskId = "t1" }

SseNext ==
  \/ \E ex \in ExecutorDefs : Register(ex)
  \/ \E msg \in InboundMessages, opt \in SseExecOptions : Execute(msg, opt) /\ UNCHANGED rpc
  \/ ExecutorStep(TRUE)
  \/ \E o \in Observers, t \in RequestTaskIds, c \in ContextIds : createSSEHandler(o, t, c)
  \/ \E o \in Observers, t \in RequestTaskIds : createRedisSSEHandler(o, t)
  \/ \E o \in Observers : onSubscribed(o)
  \/ \E o \in Observers, cancelled \in BOOLEAN : onAbort(o, cancelled)

SseSpec == SseInit /\ [][SseNext]_vars

(***************************************************************************)
(* The JSON-RPC endpoint in front of the instance (handlePostRequest).     *)
(* A request body is the text the client posted: json tells what           *)
(* request.json() makes of it ("unparsable": it throws; "null", "string":  *)
(* a JSON value that is no object; "object"), the other fields are the     *)
(* members of the object.  params.valid tells whether params satisfies the *)
(* schema of the method.                                                   *)
(***************************************************************************)
\* z.union([z.string(), z.number(), z.null()])
JSONRPCRequestBaseIds == {"r1", "7", "null"}

RpcIds == JSONRPCRequestBaseIds \cup {"undefined", "true"}

PushMethods == {"tasks/setPushNotificationConfig", "tasks/getPushNotificationConfig"}

RpcMethods == {"message/send", "tasks/get", "tasks/cancel"} \cup PushMethods

MethodParams(method) ==
  CASE method = "message/send" ->
         { Params(TRUE, m, t, "") : m \in InboundMessages, t \in TaskIds \cup {""} }
    [] method = "tasks/get" -> { Params(TRUE, NoMsg, t, "") : t \in TaskIds }
    [] method = "tasks/cancel" -> { Params(TRUE, NoMsg, t, c) : t \in TaskIds, c \in ContextIds }
    [] OTHER -> { Params(TRUE, NoMsg, t, "") : t \in TaskIds }

RequestBodies ==
  { Body(j, "", "undefined", "", NoParams) : j \in {"unparsable", "null", "string"} }
    \cup UNION { { Body("object", "2.0", id, m, p) : id \in RpcIds, p \in MethodParams(m) } :
                 m \in RpcMethods }
    \cup { Body("object", "2.0", id, m, NoParams) : id \in RpcIds, m \in {"message/send", "bogus"} }
    \cup { Body("object", "1.0", id, "tasks/get", Params(TRUE, NoMsg, "t1", "")) : id \in RpcIds }

\* body.id as JavaScript reads it (undefined on a string)
BodyId(body) == IF body.json = "object" THEN body.id ELSE "undefined"

JSONRPCRequestSchema(body) ==
  /\ body.json = "object"
  /\ body.jsonrpc = "2.0"
  /\ body.id \in JSONRPCRequestBaseIds
  /\ body.method \in RpcMethods
  /\ body.params.valid

\* a response that needs no call on the instance
Respond(body, response) ==
  /\ ops.calls < MaxCalls
  /\ ops' = [ops EXCEPT !.calls = @ + 1]
  /\ rpc' = [rpc EXCEPT !.response = response, !.sent = @ + 1, !.requestId = BodyId(body),
                         !.request = body]
  /\ UNCHANGED <<boot, wf, backend, fk, executors, store, clock, events, call, saves, last,
                 attached, saveLog, overlap, sse>>

\* taskId = context?.taskId || crypto.randomUUID(), contextId likewise (the
\* params schema keeps no contextId); a random id is one no task has yet
handleMessageSend(body) ==
  /\ ~rpc.pending
  /\ \E t \in TaskIds, c \in ContextIds :
        /\ IF body.params.taskId # "" THEN t = body.params.taskId
           ELSE ~GetTask(store, t).exists
        /\ Execute(body.params.message, [taskId |-> t, contextId |-> c])
        /\ LET x == [rpc EXCEPT !.pending = TRUE, !.id = body.id, !.taskId = t,
                                !.message = body.params.message, !.sending = body,
                                !.created = ~GetTask(store, t).exists]
           IN rpc' = IF call'.active THEN x ELSE handleMessageSendReturn(x, last')

\* createA2A gives every instance a getTask member (getTask:
\* context.getTask), with or without a storage adapter
InstanceGetTask == TRUE

handleTasksGet(body) ==
  LET t == body.params.taskId
      o == getTask(store, events, t)
      task == GetTask(o.st, t)
  IN Respond(body,
       IF ~InstanceGetTask
       THEN createErrorResponse(body.id, STORAGE_ERROR,
                                "Storage adapter required for tasks/get", Undefined)
       ELSE IF ~o.ok
       THEN createErrorResponse(body.id, STORAGE_ERROR, "Failed to retrieve task", [s |-> o.err])
       ELSE IF ~task.exists
       THEN createErrorResponse(body.id, TASK_NOT_FOUND, "Task not found", Undefined)
       ELSE createSuccessResponse(body.id, [task |-> task]))

\* cancelTask resolves to undefined
handleTasksCancel(body) ==
  \E sendOk \in BOOLEAN :
     /\ CallCancelTask(body.params.taskId, body.params.contextId, AgentMsg, sendOk)
     /\ rpc' = [rpc EXCEPT
                  !.sent = @ + 1,
                  !.requestId = body.id,
                  !.request = body,
                  !.response =
                     IF last'.ok
                     THEN createSuccessResponse(body.id, [task |-> Undefined])
                     ELSE createErrorResponse(body.id, STORAGE_ERROR, "Failed to cancel task",
                                              [s |-> last'.err])]

handlePostRequest(body) ==
  IF body.json = "unparsable"
  THEN Respond(body, createErrorResponse("null", INTERNAL_ERROR, "Internal server error",
                                         [s |-> "SyntaxError"]))
  ELSE IF ~JSONRPCRequestSchema(body)
  THEN IF body.json = "null"
       THEN Respond(body, createErrorResponse("null", INTERNAL_ERROR, "Internal server error",
                                              [s |-> "TypeError"]))
       ELSE Respond(body, createErrorResponse(Nullish(BodyId(body), "null"), INVALID_REQUEST,
                                              "Invalid request format", [format |-> TRUE]))
  ELSE CASE body.method = "message/send" -> handleMessageSend(body)
         [] body.method = "tasks/get" -> handleTasksGet(body)
         [] body.method = "tasks/cancel" -> handleTasksCancel(body)
         [] OTHER -> Respond(body, createErrorResponse(body.id, METHOD_NOT_FOUND,
                                                       "Method not implemented", Undefined))

RpcNext ==
  \/ \E ex \in ExecutorDefs : Register(ex)
  \/ \E body \in RequestBodies : handlePostRequest(body)
  \/ \E sendOk \in BOOLEAN : ExecutorStep(sendOk)

RpcSpec == Init /\ [][RpcNext]_vars

(***************************************************************************)
(* Research workflows: the steps of the two Inngest functions, the user    *)
(* messages that reach the three executors, and the Inngest events the     *)
(* executors send.  The workflow talks to the A2A instance through the     *)
(* HTTP client, whose calls go through the REST handlers.                  *)
(***************************************************************************)
WorkflowMsg(id) == Message(id, <<>>, <<TextPart, DataPart>>, FALSE)

\* createA2AHttpClient: a call throws unless the handler answered 2xx; the
\* handlers look the task up first and answer 500 when that throws
createA2AHttpClient(st, ev, t, out) ==
  IF ~getTask(st, ev, t).ok THEN Outcome(FALSE, st, ev, "Failed") ELSE out

\* variant: every answer to the plan gate resumes with the execution
planApprovalNextAlways(planApproval) == "execute-research"

\* researchWithA2AV2 after wait-for-plan-approval; "timeout" is the null
\* the wait returns when no matching event arrived in time
planApprovalNext(planApproval) ==
  IF planApproval = "timeout" \/ planApproval # "approve"
  THEN "returned" ELSE "execute-research"

\* researchWithA2AV2 after wait-for-execution-approval
executionApprovalNext(executionApproval) ==
  IF executionApproval = "timeout" \/ executionApproval # "approve"
  THEN "returned" ELSE "complete-research"

\* generateResearchPlanStep after wait-for-plan-feedback
planFeedbackNext(feedbackData) ==
  CASE feedbackData = "timeout" -> "failed"
    [] feedbackData = "approve" -> "execute-research-plan"
    [] OTHER -> "create-research-plan"

\* executeResearchPlanStep after wait-for-execution-feedback
executionFeedbackNext(feedbackData) ==
  CASE feedbackData = "timeout" -> "failed"
    [] feedbackData = "approve" -> "returned"
    [] OTHER -> "execute-research-plan"

SetLast(seq, v) == [seq EXCEPT ![Len(seq)] = v]

WorkflowFrame ==
  UNCHANGED <<boot, rpc, sse, backend, fk, executors, clock, call, saves, last,
              attached, saveLog, overlap, ops>>

\* the event research.submit starts the research function
ResearchSubmit ==
  /\ wf.v1.pc = "idle"
  /\ wf' = [wf EXCEPT !.v1.pc = "create-research-plan"]
  /\ UNCHANGED <<store, events>>
  /\ WorkflowFrame

\* create-research-plan-i, generate-confirmation-uuid-i: the plan of
\* iteration i is generated and its confirmation is asked for
CreateResearchPlan ==
  /\ wf.v1.pc = "create-research-plan"
  /\ wf.v1.iteration <= MaxIterations
  /\ wf' = [wf EXCEPT !.v1.pc = "wait-for-plan-feedback",
                      !.v1.plans = Append(@, "pending")]
  /\ UNCHANGED <<store, events>>
  /\ WorkflowFrame

\* an event research.plan.feedback with data {uuid, approved}; the wait of
\* iteration i only matches the uuid generated in iteration i
PlanFeedback(uuid, decision) ==
  /\ wf.v1.pc = "wait-for-plan-feedback"
  /\ wf' = IF uuid # Len(wf.v1.plans) THEN wf
           ELSE [wf EXCEPT !.v1.pc = planFeedbackNext(decision),
                           !.v1.plans = SetLast(@, decision),
                           !.v1.iteration = IF decision = "approve" THEN 0 ELSE @ + 1]
  /\ UNCHANGED <<store, events>>
  /\ WorkflowFrame

\* the 30m timeout of wait-for-plan-feedback-i
PlanFeedbackTimeout ==
  /\ wf.v1.pc = "wait-for-plan-feedback"
  /\ wf' = [wf EXCEPT !.v1.pc = planFeedbackNext("timeout"),
                      !.v1.plans = SetLast(@, "timeout")]
  /\ UNCHANGED <<store, events>>
  /\ WorkflowFrame

\* execute-research-i: the plan returned by generateResearchPlanStep is
\* executed and the confirmation of the execution is asked for
ExecuteResearchPlan ==
  /\ wf.v1.pc = "execute-research-plan"
  /\ wf.v1.iteration <= MaxIterations
  /\ wf' = [wf EXCEPT !.v1.pc = "wait-for-execution-feedback",
                      !.v1.executed = Len(wf.v1.plans),
                      !.v1.executions = Append(@, "pending")]
  /\ UNCHANGED <<store, events>>
  /\ WorkflowFrame

\* an event research.execution.feedback with data {uuid, approved}
ExecutionFeedback(uuid, decision) ==
  /\ wf.v1.pc = "wait-for-execution-feedback"
  /\ wf' = IF uuid # Len(wf.v1.executions) THEN wf
           ELSE [wf EXCEPT !.v1.pc = executionFeedbackNext(decision),
                           !.v1.executions = SetLast(@, decision),
                           !.v1.iteration = @ + 1]
  /\ UNCHANGED <<store, events>>
  /\ WorkflowFrame

\* the 30m timeout of wait-for-execution-feedback-i
ExecutionFeedbackTimeout ==
  /\ wf.v1.pc = "wait-for-execution-feedback"
  /\ wf' = [wf EXCEPT !.v1.pc = executionFeedbackNext("timeout"),
                      !.v1.executions = SetLast(@, "timeout")]
  /\ UNCHANGED <<store, events>>
  /\ WorkflowFrame

\* inngest.send of an executor: research.a2a.v2.start starts a run, a
\* feedback event resumes every run that waits for it on the same taskId
InngestSend(w, extension, t, c, decision) ==
  CASE extension = "research/v2/start" ->
         LET r == CHOOSE x \in Runs : w.v2[x].pc = "idle" /\
                     \A y \in Runs : w.v2[y].pc = "idle" => x <= y
         IN [w EXCEPT !.v2[r] = [NoRun EXCEPT !.pc = "generate-plan", !.taskId = t,
                                               !.contextId = c]]
    [] extension = "research/v2/plan-approval" ->
         [w EXCEPT !.v2 = [r \in Runs |->
            IF w.v2[r].pc = "wait-for-plan-approval" /\ w.v2[r].taskId = t
            THEN [w.v2[r] EXCEPT !.pc = planApprovalNext(decision), !.plan = decision,
                                 !.result = IF planApprovalNext(decision) = "returned"
                                            THEN "rejected" ELSE @]
            ELSE w.v2[r]]]
    [] extension = "research/v2/execution-approval" ->
         [w EXCEPT !.v2 = [r \in Runs |->
            IF w.v2[r].pc = "wait-for-execution-approval" /\ w.v2[r].taskId = t
            THEN [w.v2[r] EXCEPT !.pc = executionApprovalNext(decision),
                                 !.execution = decision,
                                 !.result = IF executionApprovalNext(decision) = "returned"
                                            THEN "rejected" ELSE @]
            ELSE w.v2[r]]]
    [] OTHER -> w

\* message/send of a user message to the shared instance: a2a.execute saves
\* the task as submitted and the message, validates the input and runs the
\* executor, which sends its Inngest event
ResearchMessageSend(msg, t, c, decision) ==
  /\ wf.sent < MaxUserMessages
  /\ LET executor == findExecutor(msg.extensions, executors)
         checks == executeChecks(store, executor, t, c, msg)
         st1 == SaveTask(store, Task(t, c, "submitted", msg, <<>>, <<>>))
         r2 == SaveMessage(st1, t, msg)
         w == [wf EXCEPT !.sent = @ + 1]
     IN /\ executor.extension = "research/v2/start" => \E r \in Runs : wf.v2[r].pc = "idle"
        /\ IF ~checks.ok THEN store' = checks.st /\ wf' = w
           ELSE /\ store' = r2.st
                /\ wf' = IF r2.ok /\ InputValid(msg, executor)
                         THEN InngestSend(w, executor.extension, t, c, decision)
                         ELSE w
  /\ UNCHANGED events
  /\ WorkflowFrame

\* a step.run whose A2A calls gave the outcome o: a throwing step fails the
\* run once its retries are used up
StepRun(r, o, next) ==
  /\ store' = o.st
  /\ events' = o.ev
  /\ wf' = [wf EXCEPT !.v2[r].pc = IF o.ok THEN next ELSE "failed",
                      !.v2[r].result = IF o.ok THEN @ ELSE "failed"]
  /\ WorkflowFrame

\* step "generate-plan": two updateMessage calls
GeneratePlan(r) ==
  /\ wf.v2[r].pc = "generate-plan"
  /\ LET t == wf.v2[r].taskId
         c == wf.v2[r].contextId
     IN \E o1 \in {createA2AHttpClient(store, events, t,
                      updateMessage(store, events, t, c, WorkflowMsg("w1"), TRUE))} :
        \E o2 \in {IF ~o1.ok THEN o1
                   ELSE createA2AHttpClient(o1.st, o1.ev, t,
                          updateMessage(o1.st, o1.ev, t, c, WorkflowMsg("w2"), TRUE))} :
           StepRun(r, o2, "request-plan-approval")

\* step "request-plan-approval": updateStatus input-required
RequestPlanApproval(r) ==
  /\ wf.v2[r].pc = "request-plan-approval"
  /\ LET t == wf.v2[r].taskId
         c == wf.v2[r].contextId
     IN StepRun(r, createA2AHttpClient(store, events, t,
                     updateStatus(store, events, t, c, "input-required",
                                  WorkflowMsg("w3"), TRUE)),
                "wait-for-plan-approval")

\* the 30m timeout of wait-for-plan-approval
PlanApprovalTimeout(r) ==
  /\ wf.v2[r].pc = "wait-for-plan-approval"
  /\ wf' = [wf EXCEPT !.v2[r].pc = planApprovalNext("timeout"),
                      !.v2[r].plan = "timeout",
                      !.v2[r].result = "rejected"]
  /\ UNCHANGED <<store, events>>
  /\ WorkflowFrame

\* step "execute-research": updateStatus working, then updateMessage
ExecuteResearch(r) ==
  /\ wf.v2[r].pc = "execute-research"
  /\ LET t == wf.v2[r].taskId
         c == wf.v2[r].contextId
     IN \E o1 \in {createA2AHttpClient(store, events, t,
                      updateStatus(store, events, t, c, "working", WorkflowMsg("w4"), TRUE))} :
        \E o2 \in {IF ~o1.ok THEN o1
                   ELSE createA2AHttpClient(o1.st, o1.ev, t,
                          updateMessage(o1.st, o1.ev, t, c, WorkflowMsg("w5"), TRUE))} :
           StepRun(r, o2, "request-execution-approval")

\* step "request-execution-approval": updateStatus input-required
RequestExecutionApproval(r) ==
  /\ wf.v2[r].pc = "request-execution-approval"
  /\ LET t == wf.v2[r].taskId
         c == wf.v2[r].contextId
     IN StepRun(r, createA2AHttpClient(store, events, t,
                     updateStatus(store, events, t, c, "input-required",
                                  WorkflowMsg("w6"), TRUE)),
                "wait-for-execution-approval")

\* the 30m timeout of wait-for-execution-approval
ExecutionApprovalTimeout(r) ==
  /\ wf.v2[r].pc = "wait-for-execution-approval"
  /\ wf' = [wf EXCEPT !.v2[r].pc = executionApprovalNext("timeout"),
                      !.v2[r].execution = "timeout",
                      !.v2[r].result = "rejected"]
  /\ UNCHANGED <<store, events>>
  /\ WorkflowFrame

\* step "complete-research": updateArtifact, then the function returns
CompleteResearch(r) ==
  /\ wf.v2[r].pc = "complete-research"
  /\ LET t == wf.v2[r].taskId
         c == wf.v2[r].contextId
         o == createA2AHttpClient(store, events, t,
                updateArtifact(store, events, t, c, Artifact("a1", "p1"), TRUE))
     IN /\ store' = o.st
        /\ events' = o.ev
        /\ wf' = [wf EXCEPT !.v2[r].pc = IF o.ok THEN "returned" ELSE "failed",
                            !.v2[r].result = IF o.ok THEN "completed" ELSE "failed"]
  /\ WorkflowFrame

\* the shared instance of executors/a2a.ts: drizzle storage, the three
\* executors registered
ResearchInit ==
  /\ InitCore
  /\ backend = "drizzle"
  /\ sse = SseStart("memory", "once")

RegisterResearchExecutors ==
  /\ executors = <<>>
  /\ executors' = ExecutorsSet(ExecutorsSet(ExecutorsSet(<<>>, researchStartExecutorV2),
                                            planApprovalExecutorV2),
                               executionApprovalExecutorV2)
  /\ UNCHANGED <<boot, wf, rpc, sse, backend, fk, store, clock, events, call, saves, last,
                 attached, saveLog, overlap, ops>>

ResearchNext ==
  \/ RegisterResearchExecutors
  \/ ResearchSubmit
  \/ CreateResearchPlan
  \/ \E uuid \in 1..(MaxIterations + 1), d \in Decisions : PlanFeedback(uuid, d)
  \/ PlanFeedbackTimeout
  \/ ExecuteResearchPlan
  \/ \E uuid \in 1..(MaxIterations + 1), d \in Decisions : ExecutionFeedback(uuid, d)
  \/ ExecutionFeedbackTimeout
  \/ \E msg \in ResearchMessages, t \in TaskIds, c \in ContextIds, d \in Decisions :
        executors # <<>> /\ ResearchMessageSend(msg, t, c, d)
  \/ \E r \in Runs : GeneratePlan(r)
  \/ \E r \in Runs : RequestPlanApproval(r)
  \/ \E r \in Runs : PlanApprovalTimeout(r)
  \/ \E r \in Runs : ExecuteResearch(r)
  \/ \E r \in Runs : RequestExecutionApproval(r)
  \/ \E r \in Runs : ExecutionApprovalTimeout(r)
  \/ \E r \in Runs : CompleteResearch(r)

ResearchSpec == ResearchInit /\ [][ResearchNext]_vars

\* Inngest runs every step of a started run, and a wait ends at the latest
\* with its 30m timeout; nothing obliges a human to answer
WorkflowStep ==
  \E r \in Runs :
    \/ GeneratePlan(r)
    \/ RequestPlanApproval(r)
    \/ PlanApprovalTimeout(r)
    \/ ExecuteResearch(r)
    \/ RequestExecutionApproval(r)
    \/ ExecutionApprovalTimeout(r)
    \/ CompleteResearch(r)

ResearchFairSpec == ResearchSpec /\ WF_vars(WorkflowStep)

(***************************************************************************)
(* Start of the shared instance: executors/a2a.ts is evaluated, its        *)
(* dynamic imports settle later, and the route module builds its handlers  *)
(* once the shared module has been evaluated.                              *)
(***************************************************************************)
RedisUrls == {"", "redis://cache"}
RedisEnableSse == {"", "true", "false"}

\* a ?? b on the module's nullable bindings
Coalesce(a, b) == IF a = "null" THEN b ELSE a

\* evaluation of executors/a2a.ts from its first to its last statement: the
\* imports are started, and eventSender is bound before any callback runs
LoadModule(redisUrl, enableSse) ==
  /\ boot.pc = "unloaded"
  /\ LET useRedis == redisUrl # "" /\ enableSse = "true"
     IN boot' = [boot EXCEPT !.pc = "loaded",
                             !.useRedis = useRedis,
                             !.imports = IF useRedis THEN "pending" ELSE "none",
                             !.eventSender = Coalesce(boot.redisEventSender, "memory")]
  /\ UNCHANGED <<wf, rpc, sse, backend, fk, executors, store, clock, events, call, saves,
                 last, attached, saveLog, overlap, ops>>

\* the then callback of Promise.all([import('ioredis'), import(redis)])
ImportResolved ==
  /\ boot.imports = "pending"
  /\ boot' = [boot EXCEPT !.imports = "resolved", !.redisEventSender = "redis",
                          !.redisSSEHandler = "redis"]
  /\ UNCHANGED <<wf, rpc, sse, backend, fk, executors, store, clock, events, call, saves,
                 last, attached, saveLog, overlap, ops>>

\* its catch callback
ImportRejected ==
  /\ boot.imports = "pending"
  /\ boot' = [boot EXCEPT !.imports = "rejected"]
  /\ UNCHANGED <<wf, rpc, sse, backend, fk, executors, store, clock, events, call, saves,
                 last, attached, saveLog, overlap, ops>>

\* createHandlers of the route module: the instance is created with the
\* module's eventSender, the stream handler is the Redis one if it is set
LoadRoute ==
  /\ boot.pc = "loaded"
  /\ boot' = [boot EXCEPT !.pc = "routed"]
  /\ sse' = [SseStart(Coalesce(boot.redisSSEHandler, "memory"),
                      IF boot.redisSSEHandler = "null" THEN "once" ELSE "perRequest")
               EXCEPT !.sender = boot.eventSender]
  /\ UNCHANGED <<wf, rpc, backend, fk, executors, store, clock, events, call, saves,
                 last, attached, saveLog, overlap, ops>>

BootInit ==
  /\ InitCore
  /\ backend = "drizzle"
  /\ sse = SseStart("memory", "once")

BootNext ==
  \/ \E redisUrl \in RedisUrls, enableSse \in RedisEnableSse : LoadModule(redisUrl, enableSse)
  \/ ImportResolved
  \/ ImportRejected
  \/ LoadRoute
  \/ \E ex \in ExecutorDefs : boot.pc = "routed" /\ Register(ex)
  \/ \E msg \in InboundMessages, opt \in SseExecOptions :
        boot.pc = "routed" /\ Execute(msg, opt) /\ UNCHANGED rpc
  \/ boot.pc = "routed" /\ ExecutorStep(TRUE)
  \/ \E o \in Observers, t \in TaskIds, c \in ContextIds :
        boot.pc = "routed" /\ createSSEHandler(o, t, c)
  \/ \E o \in Observers, t \in TaskIds : boot.pc = "routed" /\ createRedisSSEHandler(o, t)
  \/ \E o \in Observers : onSubscribed(o)

BootSpec == BootInit /\ [][BootNext]_vars

(***************************************************************************)
(* Frames of the Redis-backed stream.  Text is a sequence of tokens: a     *)
(* piece of literal text, a serialised JSON value, or a line feed.  The    *)
(* observer reads the stream as an EventSource does: lines end at a line   *)
(* feed and an empty line dispatches the frame collected so far.           *)
(***************************************************************************)
Txt(str) == [t |-> "text", s |-> str, v |-> Undefined]
Jsn(val) == [t |-> "json", s |-> "", v |-> val]
LineFeed == [t |-> "lf", s |-> "", v |-> Undefined]

\* the two characters backslash and n
BackslashN == Txt("\\n")

Member(obj, key) == IF key \in DOMAIN obj THEN obj[key] ELSE Undefined

\* ${value} in a template literal
Interpolate(val) ==
  IF val = Undefined THEN Txt("undefined")
  ELSE IF DOMAIN val = {"s"} THEN Txt(val.s) ELSE Jsn(val)

\* createRedisSSEEventSender: JSON.stringify({...event, timestamp})
RedisPayload(e) ==
  JsonMembers([kind |-> [s |-> e.kind], taskId |-> [s |-> e.taskId],
               contextId |-> [s |-> e.contextId],
               status |-> IF e.kind = STATUS_UPDATE THEN [s |-> e.state] ELSE Undefined,
               artifact |-> IF e.kind = ARTIFACT_UPDATE THEN [s |-> e.ref] ELSE Undefined,
               timestamp |-> [s |-> "now"]])

RECURSIVE Join(_, _)
Join(lines, sep) ==
  IF Len(lines) = 0 THEN <<>>
  ELSE IF Len(lines) = 1 THEN lines[1]
  ELSE lines[1] \o <<sep>> \o Join(Tail(lines), sep)

\* formatSSEMessage(eventType, data)
formatSSEMessage(eventType, data) ==
  Join(<< <<Txt("event: "), Interpolate(eventType)>>,
          <<Txt("data: "), Jsn(data)>>,
          <<>>,
          <<>> >>, BackslashN)

\* the 'message' handler: JSON.parse, then formatSSEMessage(event.type, event)
RedisFrame(payload) == formatSSEMessage(Member(payload, "type"), payload)

\* the lines of a text, each ended by a line feed; text after the last line
\* feed is an unfinished line and is not among them
RECURSIVE SplitLines(_, _)
SplitLines(text, line) ==
  IF text = <<>> THEN <<>>
  ELSE IF Head(text) = LineFeed THEN <<line>> \o SplitLines(Tail(text), <<>>)
  ELSE SplitLines(Tail(text), Append(line, Head(text)))

NoFrame == [dispatched |-> FALSE, event |-> "", data |-> Undefined]

FieldValue(lines, name, d) ==
  IF \E i \in 1..Len(lines) : Len(lines[i]) = 2 /\ lines[i][1] = Txt(name)
  THEN (LET i == CHOOSE j \in 1..Len(lines) : Len(lines[j]) = 2 /\ lines[j][1] = Txt(name)
        IN lines[i][2])
  ELSE d

\* what the observer's EventSource dispatches for the first frame of a text
ReadFrame(text) ==
  LET lines == SplitLines(text, <<>>)
  IN IF ~\E k \in 1..Len(lines) : lines[k] = <<>> THEN NoFrame
     ELSE LET k == CHOOSE j \in 1..Len(lines) :
                     lines[j] = <<>> /\ \A h \in 1..(j - 1) : lines[h] # <<>>
              fields == SubSeq(lines, 1, k - 1)
          IN [dispatched |-> TRUE,
              event |-> FieldValue(fields, "event: ", Txt("message")).s,
              data |-> FieldValue(fields, "data: ", Jsn(Undefined)).v]

(***************************************************************************)
(* Properties                                                              *)
(***************************************************************************)
Ids(msgs) == [i \in 1..Len(msgs) |-> msgs[i].messageId]

CountArtifacts(arts, aid) == Cardinality({ i \in 1..Len(arts) : arts[i].artifactId = aid })

Registered == { executors[i].extension : i \in 1..Len(executors) }

\* events of the current execute call's task, emitted since the call began
CallEvents ==
  LET own(e) == e.taskId = call.taskId
  IN SelectSeq(SubSeq(events, call.evStart + 1, Len(events)), own)

\* C1: the executor execute resolves for a message (the one it runs, or
\* the one whose input schema rejects the message) is the executor
\* registered for the first URI of message.extensions (in list order)
\* that has a registered executor, whatever the order of registration.
C1_FirstExtensionWins ==
  (last.op = "execute-start" \/ (last.op = "execute" /\ last.err = "validation")) =>
    LET exts == call.message.extensions
        hits == { i \in 1..Len(exts) : exts[i] \in Registered }
    IN /\ hits # {}
       /\ \E i \in hits :
            /\ \A j \in hits : i <= j
            /\ call.extension = exts[i]
            /\ call.body = ExecutorsGet(executors, exts[i]).body

C1_Witness ==
  /\ last.op = "execute-start"
  /\ Len(executors) = 2 /\ executors[1].extension = "A" /\ executors[2].extension = "B"
  /\ call.message.extensions = <<"B", "A">>
  /\ call.extension = "B"

\* C2: once updateStatus(taskId, contextId, {state: s}) on a stored task
\* has resolved, getTask(taskId) returns a task whose status.state is s.
C2_StatusReadback ==
  ( /\ \/ last.op = "updateStatus"
        \/ (last.op \in {"execute-step", "execute"} /\ last.ref = "updateStatus")
    /\ last.ok /\ last.existed )
  => /\ getTask(store, events, last.taskId).ok
     /\ GetTask(store, last.taskId).state = last.state

C2_Witness ==
  /\ last.op = "updateStatus" /\ last.ok /\ last.existed
  /\ last.state = "completed"
  /\ backend = "drizzle"
  /\ GetTask(store, last.taskId).state = "completed"

\* C3: an executor that calls updateStatus(working), updateArtifact(a1),
\* updateStatus(completed) makes the channel receive exactly these three
\* events in this order, and after execute returns the task is persisted
\* as completed with exactly one stored artifact, a1 (the task had nothing
\* stored before the call and no other call ran during it).
C3_ScenarioEvents ==
  (last.op = "execute" /\ last.ok /\ call.extension = "B") =>
    /\ ( call.alone =>
           [i \in 1..Len(CallEvents) |->
              <<CallEvents[i].kind, CallEvents[i].state, CallEvents[i].ref>>]
             = << <<STATUS_UPDATE, "working", "">>,
                  <<ARTIFACT_UPDATE, "", "a1">>,
                  <<STATUS_UPDATE, "completed", "">> >> )
    /\ (backend # "none") =>
         /\ GetTask(store, call.taskId).state = "completed"
         /\ (call.fresh /\ call.alone) =>
               GetTaskArtifacts(store, call.taskId) = <<Artifact("a1", "p1")>>

C3_Witness ==
  /\ last.op = "execute" /\ last.ok /\ call.extension = "B"
  /\ call.fresh /\ call.alone
  /\ backend # "none"
  /\ Len(CallEvents) = 3
  /\ GetTaskArtifacts(store, call.taskId) = <<Artifact("a1", "p1")>>

\* C4: when executor B runs on a task that executor A left in
\* input-required with a stored artifact and a history message, the task
\* B reads with getTask carries A's artifact and history, and B brings
\* the persisted state to completed.
C4_ResumeSeesTask ==
  (call.extension = "B" /\ call.resumes /\ call.seen.exists) =>
    /\ Artifact("a0", "p1") \in Range(call.seen.artifacts)
    /\ AgentMsg.messageId \in Range(Ids(call.seen.history))
    /\ (last.op = "execute" /\ last.ok) => GetTask(store, call.taskId).state = "completed"

\* C5: the history of a stored task, as loaded with the task and as
\* returned by getMessages, is the sequence of all messages attached to
\* it (inbound, updateMessage and status messages) in attachment order.
C5_HistoryIsAttached ==
  \A t \in TaskIds :
    GetTask(store, t).exists =>
      /\ Ids(GetTask(store, t).history) = Ids(attached[t])
      /\ \A r \in GetMessages(store, t) : Ids(r) = Ids(attached[t])

\* C6: getMessages(taskId) returns the saved messages in the order of the
\* saveMessage calls (made one after the other), also when their rows
\* carry the same timestamp.
C6_MessageOrder ==
  \A t \in TaskIds :
    ~overlap[t] => \A r \in GetMessages(store, t) : Ids(r) = Ids(saveLog[t])

C6_Witness ==
  \E t \in TaskIds :
    /\ backend = "drizzle"
    /\ ~overlap[t]
    /\ Ids(saveLog[t]) = <<"g2", "g1">>
    /\ \A r \in DbJoin(store.db, t) : r.createdAt = 0
    /\ GetMessages(store, t) # {}

\* C7: within one task every stored message has its own sequence number,
\* also when two saveMessage calls for the task interleave.
C7_UniqueSequence ==
  \A r1, r2 \in store.db.taskMessages :
    (r1.taskId = r2.taskId /\ r1.messageId # r2.messageId) => r1.sequence # r2.sequence

\* C8: after a second updateArtifact for a task with the same artifactId
\* and different parts, exactly one stored artifact has that artifactId,
\* with the latest parts, in getTaskArtifacts and in the task's artifacts.
C8_ArtifactUpsert ==
  (last.op = "adapter.updateArtifact" /\ last.ok /\ last.repeat) =>
    LET stored == GetTaskArtifacts(store, last.taskId)
        listed == GetTask(store, last.taskId).artifacts
    IN /\ CountArtifacts(stored, last.ref) = 1
       /\ Artifact(last.ref, last.parts) \in Range(stored)
       /\ (GetTask(store, last.taskId).exists) =>
            /\ CountArtifacts(listed, last.ref) = 1
            /\ Artifact(last.ref, last.parts) \in Range(listed)

\* C9: updateStatus, getTask and cancelTask on a taskId without a stored
\* task fail with "Task not found", and no task row exists afterwards.
C9_MissingTaskFails ==
  ( /\ last.op \in {"updateStatus", "getTask", "cancelTask"}
    /\ backend # "none"
    /\ ~last.existed
    /\ last.err # "send failed" )
  => /\ ~last.ok
     /\ last.err = "Task not found"
     /\ ~GetTask(store, last.taskId).exists

\* C10: an execute whose input fails the executor's input schema leaves
\* the stored task state as it was: a task that was not stored before the
\* call has no row and no message history after it.
C10_InvalidInputNoWrite ==
  (last.op = "execute" /\ last.err = "validation" /\ ~last.existed /\ call.fresh) =>
    /\ ~GetTask(store, last.taskId).exists
    /\ GetMessages(store, last.taskId) = {<<>>}

\* C11: an execute call that fails because no registered executor matches
\* the message's extensions, or because taskId or contextId is missing
\* from both the options and the message, changes nothing in storage and
\* emits no event.
C11_RejectedExecuteNoWrite ==
  [][ ( /\ ops'.calls = ops.calls + 1
        /\ last'.op = "execute"
        /\ last'.err \in {"No executor found", "taskId and contextId are required"} )
      => (store' = store /\ events' = events) ]_vars

C11_Witness ==
  /\ last.op = "execute"
  /\ last.err = "taskId and contextId are required"
  /\ \E t \in TaskIds : GetTask(store, t).exists
  /\ events # <<>>

\* C12: an execute against a taskId that already has a stored task
\* overwrites the row: right after execute's writes, whatever state the
\* task was in, its status.state is submitted and its status.message is
\* the new inbound message.
C12_ReexecuteOverwrites ==
  ( /\ last.op = "execute-start" \/ (last.op = "execute" /\ last.err = "validation")
    /\ last.existed )
  => /\ GetTask(store, last.taskId).exists
     /\ GetTask(store, last.taskId).state = "submitted"
     /\ GetTask(store, last.taskId).smsg = call.message

C12_Witness ==
  /\ last.op = "execute-start" /\ last.existed
  /\ call.resumes
  /\ call.message.messageId = "m2"
  /\ GetTask(store, last.taskId).state = "submitted"
  /\ GetTask(store, last.taskId).smsg.messageId = "m2"

\* C13: when the event send fails during updateStatus, updateArtifact,
\* updateMessage or cancelTask, the storage write of that operation is
\* still performed: the store after the call is the store after the
\* operation's write.
C13_WriteDespiteSendFailure ==
  [][ ( /\ ops'.calls = ops.calls + 1
        /\ last'.err = "send failed"
        /\ last'.op \in {"updateStatus", "updateArtifact", "updateMessage", "cancelTask"} )
      => LET t == last'.taskId
         IN CASE last'.op = "updateStatus" ->
                   \E status \in StatusInputs :
                      store' = UpdateTaskStatus(store, t, status.state, status.message).st
              [] last'.op = "cancelTask" ->
                   \E msg \in StatusMessages :
                      store' = UpdateTaskStatus(store, t, "canceled", msg).st
              [] last'.op = "updateMessage" ->
                   store' = SaveMessage(store, t, AgentMsg).st
              [] last'.op = "updateArtifact" ->
                   \E a \in ArtifactIds, p \in PartsValues :
                      store' = UpdateArtifact(store, t, Artifact(a, p)).st ]_vars

\* C14: no status transition is rejected: updateStatus on a stored task,
\* called from outside or by a running executor, succeeds whatever the
\* current state (also after cancelTask or completed) and the persisted
\* state is that of this last call.
C14_NoTransitionRejected ==
  ( /\ \/ last.op = "updateStatus"
        \/ (last.op \in {"execute-step", "execute"} /\ last.ref = "updateStatus")
    /\ last.existed
    /\ last.err # "send failed" )
  => /\ last.ok
     /\ GetTask(store, last.taskId).state = last.state

C14_Witness ==
  /\ last.op \in {"execute-step", "execute"} /\ last.ref = "updateStatus"
  /\ last.ok /\ last.existed
  /\ \E i \in (call.evStart + 1)..(Len(events) - 1) :
        /\ events[i].taskId = last.taskId
        /\ events[i].state = "canceled"
  /\ GetTask(store, last.taskId).state = last.state

\* C15: after any sequence of operations through any surface, every
\* stored task's status.state is one of the nine enumerated states.
C15_StateIsEnumerated ==
  \A t \in TaskIds :
    GetTask(store, t).exists => GetTask(store, t).state \in TaskStateSchema

\* events emitted for the task of sink o since its stream request
Due(o) ==
  { i \in (sse.sinks[o].since + 1)..Len(events) : events[i].taskId = sse.sinks[o].task }

\* C16: an observer connected to a task's stream receives every event
\* emitted for that taskId after it connected, status and artifact
\* updates alike, until the client disconnects (its abort signal fires).
C16_ObserverReceivesAll ==
  \A o \in Observers :
    (sse.sinks[o].pc \in {"subscribing", "streaming"} /\ ~sse.sinks[o].aborted)
      => Due(o) \subseteq Range(sse.sinks[o].received)

C18_AbortRemovesSink ==
  \A o \in Observers :
    sse.sinks[o].aborted =>
      /\ o \notin sse.connections[sse.sinks[o].task]
      /\ ~sse.sinks[o].late

\* C19: on the Redis channel the process is unsubscribed from a task's
\* channel once no local sink remains for the task, in particular when
\* all its observers have disconnected, and it is subscribed while a local
\* sink remains.
C19_SubscriptionFollowsSinks ==
  sse.channel = "redis" =>
    \A t \in TaskIds :
      /\ (sse.connections[t] = {}) => ~sse.subscribed[t]
      /\ (sse.connections[t] # {}) => sse.subscribed[t]
      /\ ( (\E o \in Observers : sse.sinks[o].task = t)
             /\ (\A p \in Observers : sse.sinks[p].task = t => sse.sinks[p].aborted) )
         => ~sse.subscribed[t]

\* C20: every response of the JSON-RPC POST endpoint has HTTP status 200 and
\* a body whose members are jsonrpc = "2.0", id = the id of the request (null
\* when the request carried none or could not be read) and exactly one of
\* result and error.
C20_ResponseEnvelope ==
  rpc.sent > 0 =>
    LET body == rpc.response.body
    IN /\ rpc.response.status = 200
       /\ DOMAIN body \in {{"jsonrpc", "id", "result"}, {"jsonrpc", "id", "error"}}
       /\ body.jsonrpc = "2.0"
       /\ body.id = Nullish(rpc.requestId, "null")

\* an error response with id null to an unreadable request has been followed
\* by the success response of a message/send, carrying the request's id
C20_Witness ==
  /\ rpc.sent = 2
  /\ last.op = "execute" /\ last.ok
  /\ rpc.requestId = "r1"
  /\ rpc.response.status = 200
  /\ DOMAIN rpc.response.body = {"jsonrpc", "id", "result"}
  /\ rpc.response.body.id = "r1"

\* the last response answers a well-formed request of the given method
Answered(method) ==
  /\ rpc.sent > 0
  /\ JSONRPCRequestSchema(rpc.request)
  /\ rpc.request.method = method

\* C21: a message/send whose message names only extensions without a
\* registered executor is answered with an error that carries the request's
\* id, code -32002 and message "No executor found for extensions".
C21_ExecutorNotFound ==
  (/\ Answered("message/send")
   /\ Range(rpc.request.params.message.extensions) \cap Registered = {})
  => /\ DOMAIN rpc.response.body = {"jsonrpc", "id", "error"}
     /\ rpc.response.body.id = rpc.request.id
     /\ rpc.response.body.error.code.n = EXECUTOR_NOT_FOUND
     /\ rpc.response.body.error.message.s = "No executor found for extensions"

\* an executor is registered, but none for the extension of the message
C21_Witness ==
  /\ Answered("message/send")
  /\ Registered # {}
  /\ Range(rpc.request.params.message.extensions) \cap Registered = {}
  /\ rpc.request.id = "7"
  /\ rpc.response.body.id = "7"
  /\ rpc.response.body.error.code.n = EXECUTOR_NOT_FOUND

\* C22: tasks/get for a taskId that has no stored task (on an instance with
\* a storage adapter) is answered with a JSON-RPC error whose code is -32001
\* (TASK_NOT_FOUND).
C22_TaskNotFound ==
  (/\ Answered("tasks/get")
   /\ backend # "none"
   /\ ~GetTask(store, rpc.request.params.taskId).exists)
  => /\ "error" \in DOMAIN rpc.response.body
     /\ rpc.response.body.error.code.n = TASK_NOT_FOUND

\* C23: tasks/get on an instance configured without a storage adapter is
\* answered with error code -32003 and the message 'Storage adapter required
\* for tasks/get'.
C23_AdapterRequired ==
  (Answered("tasks/get") /\ backend = "none")
  => /\ "error" \in DOMAIN rpc.response.body
     /\ rpc.response.body.error.code.n = STORAGE_ERROR
     /\ rpc.response.body.error.message.s = "Storage adapter required for tasks/get"

\* C24: a successful message/send returns a task snapshot with state
\* submitted and history = [the sent message], whose id and contextId are
\* those of the task persisted by execute (context.taskId when it was
\* supplied), and a streamUrl parameterized by the same taskId.
C24_SnapshotMatchesTask ==
  (/\ Answered("message/send")
   /\ ~rpc.pending
   /\ backend # "none"
   /\ "result" \in DOMAIN rpc.response.body)
  => LET task == rpc.response.body.result.task
         stored == GetTask(store, task.id)
     IN /\ task.state = "submitted"
        /\ task.history = <<rpc.request.params.message>>
        /\ (rpc.request.params.taskId # "" => task.id = rpc.request.params.taskId)
        /\ stored.exists
        /\ task.id = stored.id
        /\ task.contextId = stored.contextId
        /\ rpc.response.body.result.streamUrl.taskId = task.id

\* C25: tasks/cancel on an existing task persists the state canceled and is
\* answered with a success result that contains the task.
C25_CancelReturnsTask ==
  (/\ Answered("tasks/cancel")
   /\ last.op = "cancelTask" /\ last.existed /\ last.ok)
  => /\ GetTask(store, rpc.request.params.taskId).state = "canceled"
     /\ DOMAIN rpc.response.body = {"jsonrpc", "id", "result"}
     /\ "task" \in DOMAIN rpc.response.body.result

RestOps == {"rest.status", "rest.messages", "rest.artifacts", "rest.task"}

\* C26: each REST sub-API operation (POST status, POST messages, POST
\* artifacts with a contextId, GET task), on an instance with a storage
\* adapter, answers HTTP 404 when no task with the id exists.
C26_MissingTaskIs404 ==
  (/\ last.op \in RestOps
   /\ backend # "none"
   /\ last.http # 400
   /\ ~GetTask(store, last.taskId).exists)
  => last.http = 404

\* C27: a REST sub-API call addressed to a task that does not exist
\* creates no task, message or artifact in storage and emits no event.
C27_MissingTaskNoEffect ==
  [][(/\ ops'.calls # ops.calls
      /\ last'.op \in RestOps
      /\ ~GetTask(store, last'.taskId).exists)
     => (store' = store /\ events' = events)]_vars

\* a POST with a contextId for a task that is not stored has been refused,
\* while another task is stored
C27_Witness ==
  /\ last.op \in RestOps \ {"rest.task"}
  /\ last.http \in {404, 500}
  /\ ~GetTask(store, last.taskId).exists
  /\ \E t \in TaskIds : GetTask(store, t).exists
  /\ last.err # "400 contextId is required"

\* C28: on every storage backend, updateTaskStatus(id, status) with
\* status.message present appends the message to the task's history: a
\* getMessages(id) that follows ends with it.
C28_StatusMessageAppended ==
  (/\ last.op = "adapter.updateTaskStatus"
   /\ last.ok /\ last.existed
   /\ last.ref # "")
  => \A msgs \in GetMessages(store, last.taskId) :
        /\ msgs # <<>>
        /\ msgs[Len(msgs)].messageId = last.ref

\* C29: saving a message whose messageId is already attached to the task
\* updates the existing entry: getMessages(taskId) never lists a messageId
\* twice.
C29_MessageIdsUnique ==
  \A t \in TaskIds :
    \A msgs \in GetMessages(store, t) :
      \A i, j \in 1..Len(msgs) : i < j => msgs[i].messageId # msgs[j].messageId

\* C30: after updateArtifact for an existing task, a fresh load of the task
\* (getTask) lists the artifact in the task's artifacts, on every storage
\* backend.
C30_LoadedTaskHasArtifact ==
  (/\ last.op = "adapter.updateArtifact"
   /\ last.ok /\ last.existed)
  => \E i \in 1..Len(GetTask(store, last.taskId).artifacts) :
        /\ GetTask(store, last.taskId).artifacts[i].artifactId = last.ref
        /\ GetTask(store, last.taskId).artifacts[i].parts = last.parts

\* C31: a message/send whose message content fails the input schema of the
\* executor it is dispatched to is answered with a JSON-RPC error of code
\* -32600 (INVALID_REQUEST) or -32602 (INVALID_PARAMS) that carries the
\* validation details as data.
C31_ValidationErrorCode ==
  (/\ Answered("message/send")
   /\ findExecutor(rpc.request.params.message.extensions, executors) # NoExecutor
   /\ ~InputValid(rpc.request.params.message,
                  findExecutor(rpc.request.params.message.extensions, executors)))
  => /\ DOMAIN rpc.response.body = {"jsonrpc", "id", "error"}
     /\ rpc.response.body.error.code.n \in {INVALID_REQUEST, INVALID_PARAMS}
     /\ "data" \in DOMAIN rpc.response.body.error

\* C32: research execution starts only after an approve decision on the
\* plan was received by that run: the plan the research function executes
\* is one whose feedback was an approval, and a research-with-a2a-v2 run
\* past its plan gate received "approve" there; a run whose plan gate was
\* rejected or timed out never reaches the execution steps
C32_ExecutionOnlyAfterApproval ==
  /\ (wf.v1.executed # 0 => wf.v1.plans[wf.v1.executed] = "approve")
  /\ (wf.v1.pc \in {"execute-research-plan", "wait-for-execution-feedback"}
        => wf.v1.plans[Len(wf.v1.plans)] = "approve")
  /\ \A r \in Runs :
       /\ (wf.v2[r].pc \in {"execute-research", "request-execution-approval",
                            "wait-for-execution-approval", "complete-research"}
             \/ wf.v2[r].execution # "none" \/ wf.v2[r].result = "completed")
            => wf.v2[r].plan = "approve"
       /\ wf.v2[r].plan \in {"reject", "timeout"}
            => wf.v2[r].pc = "returned" /\ wf.v2[r].execution = "none"

C32_Witness ==
  /\ wf.v1.executed = 2
  /\ wf.v1.plans = <<"reject", "approve">>
  /\ \E r \in Runs : wf.v2[r].pc = "request-execution-approval"

\* C33: a step that opens an event stream for a task, and a step in which
\* the stream's client disconnects, leave the task's persisted status and
\* its message history as they were
C33_StreamLeavesTaskUnchanged ==
  [][\A o \in Observers :
       (\/ sse.sinks[o].pc = "unused" /\ sse'.sinks[o].pc \in {"subscribing", "streaming"}
        \/ ~sse.sinks[o].aborted /\ sse'.sinks[o].aborted)
       => LET t == sse'.sinks[o].task
          IN /\ GetTask(store', t).state = GetTask(store, t).state
             /\ GetTask(store', t).smsg = GetTask(store, t).smsg
             /\ GetMessages(store', t) = GetMessages(store, t)]_vars

StatusEvents(t) ==
  { i \in 1..Len(events) : events[i].kind = STATUS_UPDATE /\ events[i].taskId = t }

\* C34: between lifecycle calls, the state carried by the status-update
\* event emitted last for a stored task is the task's persisted status.state
C34_LastStatusEventMatchesStore ==
  \A t \in TaskIds :
    (backend # "none" /\ GetTask(store, t).exists /\ StatusEvents(t) # {})
    => events[Max(StatusEvents(t))].state = GetTask(store, t).state

TerminalStates == {"completed", "rejected", "failed", "canceled"}

\* C35: a research-with-a2a-v2 run that has returned (both gates answered,
\* or a gate rejected or timed out) eventually leaves its task in a
\* terminal state
C35_RunEndsInTerminalState ==
  \A r \in Runs :
    (wf.v2[r].pc = "returned")
      ~> (wf.v2[r].pc = "returned"
          /\ GetTask(store, wf.v2[r].taskId).state \in TerminalStates)

\* C36: once the shared module is evaluated with REDIS_URL set and
\* REDIS_ENABLE_SSE 'true' and the Redis integration has loaded, the
\* instance's event sender is the Redis publisher; the in-memory sender is
\* in use only without that configuration or when loading Redis failed
C36_RedisSenderWhenEnabled ==
  /\ (boot.useRedis /\ boot.imports = "resolved") => boot.eventSender = "redis"
  /\ (boot.pc = "routed" /\ sse.sender = "memory")
       => (~boot.useRedis \/ boot.imports \in {"pending", "rejected"})

\* C37: every event the Redis-backed stream has forwarded to an observer
\* reached it as a frame whose event tag is the event's kind and whose data
\* is the published payload
C37_RedisFrameCarriesEvent ==
  sse.channel = "redis" =>
    \A o \in Observers : \A i \in 1..Len(sse.sinks[o].received) :
      LET e == events[sse.sinks[o].received[i]]
          frame == ReadFrame(RedisFrame(RedisPayload(e)))
      IN /\ frame.dispatched
         /\ frame.event = e.kind
         /\ frame.data = RedisPayload(e)

\* C38: an updateArtifact call for one task leaves what getTaskArtifacts
\* returns for every other task as it was, also when the other task holds
\* an artifact with the same artifactId
C38_ArtifactsOfOtherTasksKept ==
  [][(last'.op = "adapter.updateArtifact" /\ ops'.adapter = ops.adapter + 1)
       => \A t \in TaskIds \ {last'.taskId} :
            GetTaskArtifacts(store', t) = GetTaskArtifacts(store, t)]_vars

\* C39: in the sink registry of either channel a taskId key is present
\* exactly while its set holds at least one sink: no key maps to an empty
\* set, whatever subscribe, disconnect, send and failed-write steps happened
C39_NoEmptyRegistryEntry ==
  \A t \in TaskIds : t \in sse.keys <=> sse.connections[t] # {}

\* a sink whose client had gone unnoticed was dropped by a failed write,
\* which emptied the set and removed the key
C39_Witness ==
  \E o \in Observers :
    /\ sse.sinks[o].pc = "streaming"
    /\ sse.sinks[o].cancelled
    /\ ~sse.sinks[o].listening
    /\ sse.sinks[o].task \notin sse.keys
====
